---- MODULE Spec2Model ----
(***************************************************************************)
(* mITyGuitar: the Mapper (crates/mapping), the fallback synthesizer and   *)
(* the audio output (crates/audio) and the Transport clock (crates/song),  *)
(* as state machines.  One action per public operation; helper operators   *)
(* keep the names of the functions they are translated from.               *)
(***************************************************************************)
EXTENDS Integers, Sequences, FiniteSets, TLC

\* ------------------------------------------------------------------------
\* Bounds of the model
\* ------------------------------------------------------------------------
\* How many of the five fret buttons (in fret_buttons order) a snapshot may hold down.
NumFrets == 2

Abs(x) == IF x < 0 THEN -x ELSE x

Range(s) == {s[i] : i \in 1..Len(s)}

\* ------------------------------------------------------------------------
\* crates/controller: ControllerState as the Mapper reads it
\* ------------------------------------------------------------------------
fret_buttons == <<"FretGreen", "FretRed", "FretYellow", "FretBlue", "FretOrange">>

\* The fret buttons a polled snapshot can report as pressed.
PolledFrets == {fret_buttons[i] : i \in 1..(IF NumFrets < 5 THEN NumFrets ELSE 5)}

\* The strum-bar readings of a snapshot: at rest, down, up.
StrumInputs == {{}, {"StrumDown"}, {"StrumUp"}}

\* Whammy axis readings, in hundredths of the f32 axis range -1.0 .. 1.0:
\* at the threshold of 0.01, which is not a bend yet, and pulled half way.
WhammyValues == {1, -50}

\* A snapshot: the set of buttons that are down and the whammy axis reading.
ControllerStates ==
  [buttons : {f \cup s : f \in SUBSET PolledFrets, s \in StrumInputs},
   whammy : WhammyValues]

pressed_frets(state) ==
  SelectSeq(fret_buttons, LAMBDA fret : fret \in state.buttons)

is_strumming(state) ==
  "StrumUp" \in state.buttons \/ "StrumDown" \in state.buttons

axis(state) == state.whammy

\* ------------------------------------------------------------------------
\* crates/mapping: MusicEvent
\* ------------------------------------------------------------------------
NoteOn(n, v) == [type |-> "NoteOn", note |-> n, velocity |-> v, amount |-> 0]
NoteOff(n) == [type |-> "NoteOff", note |-> n, velocity |-> 0, amount |-> 0]
PitchBend(a) == [type |-> "PitchBend", note |-> 0, velocity |-> 0, amount |-> a]
PanicAllNotesOff == [type |-> "PanicAllNotesOff", note |-> 0, velocity |-> 0, amount |-> 0]

\* ------------------------------------------------------------------------
\* crates/mapping/src/chord.rs
\* ------------------------------------------------------------------------
Chord(root, quality) == [root |-> root, quality |-> quality, inversion |-> 0]

M(frets, root, quality) == [frets |-> frets, chord |-> Chord(root, quality)]

get_intervals(chord) ==
  CASE chord.quality = "Major" -> <<0, 4, 7>>
    [] chord.quality = "Minor" -> <<0, 3, 7>>
    [] chord.quality = "Power" -> <<0, 7>>
    [] chord.quality = "Major7" -> <<0, 4, 7, 11>>
    [] chord.quality = "Minor7" -> <<0, 3, 7, 10>>
    [] chord.quality = "Dominant7" -> <<0, 4, 7, 10>>
    [] chord.quality = "Sus2" -> <<0, 2, 7>>
    [] chord.quality = "Sus4" -> <<0, 5, 7>>
    [] chord.quality = "Diminished" -> <<0, 3, 6>>
    [] chord.quality = "Augmented" -> <<0, 4, 8>>

RECURSIVE Invert(_, _)
Invert(intervals, k) ==
  IF k = 0 \/ intervals = <<>> THEN intervals
  ELSE Invert(Tail(intervals) \o <<Head(intervals) + 12>>, k - 1)

\* (base_note as i8 + root) as u8, then root + interval in u8.
to_midi_notes(chord, base_note) ==
  LET root == (base_note + chord.root) % 256
      intervals == Invert(get_intervals(chord), chord.inversion)
  IN  [i \in 1..Len(intervals) |-> (root + intervals[i]) % 256]

\* Option<Chord> as a sequence: <<>> is None, <<c>> is Some(c).
\* First mapping whose fret list has the same length and holds every pressed
\* fret; any other non-empty combination falls back to a power chord on the root.
map_frets(pattern, frets) ==
  LET hits == {i \in 1..Len(pattern) :
                 /\ Len(frets) = Len(pattern[i].frets)
                 /\ \A k \in 1..Len(frets) : frets[k] \in Range(pattern[i].frets)}
  IN  IF hits # {}
        THEN <<pattern[CHOOSE i \in hits : \A j \in hits : i <= j].chord>>
        ELSE IF frets # <<>> THEN <<Chord(0, "Power")>> ELSE <<>>

\* ------------------------------------------------------------------------
\* crates/mapping/src/genre.rs
\* ------------------------------------------------------------------------
Genres == {"Punk", "Rock", "Edm", "Metal", "Folk", "Pop"}

punk_patterns ==
  <<
    \* Punk Power Chords
    <<  M(<<"FretGreen">>, 0, "Power"),
        M(<<"FretRed">>, 5, "Power"),
        M(<<"FretYellow">>, 7, "Power"),
        M(<<"FretBlue">>, 3, "Power"),
        M(<<"FretOrange">>, -2, "Power"),
        M(<<"FretGreen", "FretRed">>, 0, "Power"),
        M(<<"FretRed", "FretYellow">>, 5, "Power") >>,
    \* Punk Sus
    <<  M(<<"FretGreen">>, 0, "Sus4"),
        M(<<"FretRed">>, 5, "Sus4"),
        M(<<"FretYellow">>, 7, "Power") >>,
    \* Punk Drop D
    <<  M(<<"FretGreen">>, -2, "Power"),
        M(<<"FretRed">>, 0, "Power"),
        M(<<"FretYellow">>, 3, "Power"),
        M(<<"FretBlue">>, 5, "Power") >>
  >>

rock_patterns ==
  <<
    \* Rock Major
    <<  M(<<"FretGreen">>, 0, "Major"),
        M(<<"FretRed">>, 5, "Major"),
        M(<<"FretYellow">>, -2, "Major"),
        M(<<"FretBlue">>, 3, "Major"),
        M(<<"FretOrange">>, 7, "Major") >>,
    \* Rock Power
    <<  M(<<"FretGreen">>, 0, "Power"),
        M(<<"FretRed">>, 5, "Power"),
        M(<<"FretYellow">>, 7, "Power"),
        M(<<"FretBlue">>, 3, "Power") >>,
    \* Rock Mixed
    <<  M(<<"FretGreen">>, 0, "Major"),
        M(<<"FretRed">>, 5, "Minor"),
        M(<<"FretYellow">>, -2, "Major"),
        M(<<"FretBlue">>, 3, "Major") >>,
    \* Rock 7ths
    <<  M(<<"FretGreen">>, 0, "Dominant7"),
        M(<<"FretRed">>, 5, "Dominant7"),
        M(<<"FretYellow">>, 7, "Major7") >>
  >>

edm_patterns ==
  <<
    \* EDM Minor
    <<  M(<<"FretGreen">>, 0, "Minor"),
        M(<<"FretRed">>, 3, "Minor"),
        M(<<"FretYellow">>, 5, "Minor"),
        M(<<"FretBlue">>, 7, "Major"),
        M(<<"FretOrange">>, 10, "Major") >>,
    \* EDM Minor 7
    <<  M(<<"FretGreen">>, 0, "Minor7"),
        M(<<"FretRed">>, 3, "Minor7"),
        M(<<"FretYellow">>, 5, "Minor7"),
        M(<<"FretBlue">>, 7, "Major7") >>,
    \* EDM Sus
    <<  M(<<"FretGreen">>, 0, "Sus2"),
        M(<<"FretRed">>, 5, "Sus2"),
        M(<<"FretYellow">>, 7, "Sus4"),
        M(<<"FretBlue">>, 3, "Sus4") >>,
    \* EDM Tension
    <<  M(<<"FretGreen">>, 0, "Minor"),
        M(<<"FretRed">>, 2, "Diminished"),
        M(<<"FretYellow">>, 5, "Minor"),
        M(<<"FretBlue">>, 8, "Augmented") >>
  >>

metal_patterns ==
  <<
    \* Metal Power
    <<  M(<<"FretGreen">>, 0, "Power"),
        M(<<"FretRed">>, 5, "Power"),
        M(<<"FretYellow">>, 7, "Power"),
        M(<<"FretBlue">>, 10, "Power"),
        M(<<"FretOrange">>, 2, "Power") >>,
    \* Metal Dark
    <<  M(<<"FretGreen">>, 0, "Minor"),
        M(<<"FretRed">>, 3, "Diminished"),
        M(<<"FretYellow">>, 5, "Power"),
        M(<<"FretBlue">>, 7, "Minor"),
        M(<<"FretOrange">>, 10, "Power") >>,
    \* Metal Aggro
    <<  M(<<"FretGreen">>, 0, "Power"),
        M(<<"FretRed">>, 6, "Diminished"),
        M(<<"FretYellow">>, 5, "Power"),
        M(<<"FretBlue">>, 10, "Power") >>
  >>

folk_patterns ==
  <<
    \* Folk Classic
    <<  M(<<"FretGreen">>, 0, "Major"),
        M(<<"FretRed">>, 5, "Major"),
        M(<<"FretYellow">>, 7, "Major"),
        M(<<"FretBlue">>, -5, "Major"),
        M(<<"FretOrange">>, 2, "Minor") >>,
    \* Folk Texture
    <<  M(<<"FretGreen">>, 0, "Sus2"),
        M(<<"FretRed">>, 5, "Sus4"),
        M(<<"FretYellow">>, 7, "Sus2"),
        M(<<"FretBlue">>, -5, "Major") >>,
    \* Folk Minor
    <<  M(<<"FretGreen">>, 0, "Minor"),
        M(<<"FretRed">>, 5, "Minor"),
        M(<<"FretYellow">>, 7, "Major"),
        M(<<"FretBlue">>, 3, "Major") >>
  >>

pop_patterns ==
  <<
    \* Pop Classic
    <<  M(<<"FretGreen">>, 0, "Major"),
        M(<<"FretRed">>, 7, "Major"),
        M(<<"FretYellow">>, -3, "Minor"),
        M(<<"FretBlue">>, 5, "Major"),
        M(<<"FretOrange">>, 2, "Minor") >>,
    \* Pop 7ths
    <<  M(<<"FretGreen">>, 0, "Major7"),
        M(<<"FretRed">>, 7, "Dominant7"),
        M(<<"FretYellow">>, -3, "Minor7"),
        M(<<"FretBlue">>, 5, "Major7") >>,
    \* Pop Bright
    <<  M(<<"FretGreen">>, 0, "Major"),
        M(<<"FretRed">>, 5, "Major"),
        M(<<"FretYellow">>, 7, "Major"),
        M(<<"FretBlue">>, 2, "Sus2") >>
  >>

get_patterns(g) ==
  CASE g = "Punk" -> punk_patterns
    [] g = "Rock" -> rock_patterns
    [] g = "Edm" -> edm_patterns
    [] g = "Metal" -> metal_patterns
    [] g = "Folk" -> folk_patterns
    [] g = "Pop" -> pop_patterns

\* ------------------------------------------------------------------------
\* crates/mapping/src/lib.rs: Mapper
\* ------------------------------------------------------------------------
VARIABLES
  mapper,     \* the Mapper struct
  events,     \* the Vec<MusicEvent> returned by the last Mapper call
  m_op,       \* the last Mapper call: new, process, panic, next_pattern,
              \* prev_pattern or set_genre
  input,      \* the snapshot handed to the last Mapper::process call
  sounding,   \* notes with an emitted NoteOn and no later emitted NoteOff
  trigger_frets, \* the frets pressed in the call that turned on the notes now on
  before      \* what the last Mapper::process call found on entry

mapper_vars == <<mapper, events, m_op, input, sounding, trigger_frets, before>>

\* Key roots handed to new_with_key_mode and set_key_root (any u8; the
\* Mapper keeps it modulo 12).
KeyRootInputs == {23}

Mapper_new(g) ==
  [genre |-> g, pattern_index |-> 0, last_strum_state |-> FALSE,
   last_frets |-> <<>>, active_notes |-> <<>>, key_root |-> 4, is_major |-> TRUE]

new_with_key_mode(g, k, major) ==
  [genre |-> g, pattern_index |-> 0, last_strum_state |-> FALSE,
   last_frets |-> <<>>, active_notes |-> <<>>, key_root |-> k % 12, is_major |-> major]

fret_combo_to_chord(self, frets) ==
  IF frets = <<>> THEN <<>>
  ELSE LET patterns == get_patterns(self.genre) IN
    IF patterns = <<>> THEN <<>>
    ELSE LET pattern == patterns[(self.pattern_index % Len(patterns)) + 1]
             found == map_frets(pattern, frets)
         IN IF found = <<>> THEN <<>>
            ELSE LET chord == found[1] IN
              IF ~self.is_major
                THEN <<[chord EXCEPT !.quality =
                          CASE chord.quality = "Major" -> "Minor"
                            [] chord.quality = "Major7" -> "Minor7"
                            [] OTHER -> chord.quality]>>
                ELSE <<chord>>

\* The single note played when no chord is resolved (lib.rs:127, lib.rs:162).
single_note(self) == 40 + self.key_root

\* The notes a (re)trigger turns on for the given fret combination.
trigger_notes(self, frets) ==
  LET chord == fret_combo_to_chord(self, frets) IN
    IF chord # <<>>
      THEN to_midi_notes(chord[1], 40 + self.key_root)
      ELSE <<single_note(self)>>

note_offs(notes) == [i \in 1..Len(notes) |-> NoteOff(notes[i])]

note_ons(notes) == [i \in 1..Len(notes) |-> NoteOn(notes[i], 100)]

\* A strum trigger that forgets to record the notes it turned on.
strum_triggered_untracked(self, frets) ==
  LET notes == trigger_notes(self, frets) IN
    [self |-> [self EXCEPT !.active_notes = <<>>, !.last_frets = frets],
     events |-> note_offs(self.active_notes) \o note_ons(notes)]

\* lib.rs:102-132: the strum went from inactive to active.
strum_triggered_branch(self, frets) ==
  LET notes == trigger_notes(self, frets) IN
    [self |-> [self EXCEPT !.active_notes = notes, !.last_frets = frets],
     events |-> note_offs(self.active_notes) \o note_ons(notes)]

\* A strum release that emits the NoteOffs but keeps the notes as active.
strum_released_uncleared(self, frets) ==
  [self |-> [self EXCEPT !.last_frets = frets],
   events |-> note_offs(self.active_notes)]

\* lib.rs:133-139: the strum went from active to inactive.
strum_released_branch(self, frets) ==
  [self |-> [self EXCEPT !.active_notes = <<>>, !.last_frets = frets],
   events |-> note_offs(self.active_notes)]

\* A re-trigger that sounds the new chord before releasing the old one.
frets_changed_ons_first(self, frets) ==
  LET notes == trigger_notes(self, frets) IN
    [self |-> [self EXCEPT !.active_notes = notes, !.last_frets = frets],
     events |-> note_ons(notes) \o note_offs(self.active_notes)]

\* lib.rs:140-168: frets changed while notes are playing.
frets_changed_branch(self, frets) ==
  LET notes == trigger_notes(self, frets) IN
    [self |-> [self EXCEPT !.active_notes = notes, !.last_frets = frets],
     events |-> note_offs(self.active_notes) \o note_ons(notes)]

TruncDiv(a, b) == IF a >= 0 THEN a \div b ELSE -((-a) \div b)

\* Variant: any deflection bends the pitch.
whammy_events_any_deflection(state) ==
  IF axis(state) # 0 THEN <<PitchBend(TruncDiv(axis(state) * 8191, 100))>> ELSE <<>>

\* lib.rs:170-175: (whammy * 8191.0) as i16 when |whammy| > 0.01.
whammy_events(state) ==
  LET whammy == axis(state) IN
    IF Abs(whammy) > 1 THEN <<PitchBend(TruncDiv(whammy * 8191, 100))>> ELSE <<>>

process(self, state) ==
  LET frets == pressed_frets(state)
      strum_active == is_strumming(state)
      strum_triggered == strum_active /\ ~self.last_strum_state
      strum_released == ~strum_active /\ self.last_strum_state
      s1 == [self EXCEPT !.last_strum_state = strum_active]
      frets_changed == frets # self.last_frets /\ self.active_notes # <<>>
      r == IF strum_triggered THEN strum_triggered_branch(s1, frets)
           ELSE IF strum_released THEN strum_released_branch(s1, frets)
           ELSE IF frets_changed THEN frets_changed_branch(s1, frets)
           ELSE [self |-> s1, events |-> <<>>]
  IN  [self |-> r.self, events |-> r.events \o whammy_events(state)]

panic(self) ==
  [self |-> [self EXCEPT !.active_notes = <<>>],
   events |-> note_offs(self.active_notes) \o <<PanicAllNotesOff>>]

\* Variant: the pattern index survives the change of genre.
set_genre_keeping_index(self, g) == [self EXCEPT !.genre = g]

set_genre(self, g) == [self EXCEPT !.genre = g, !.pattern_index = 0]

next_pattern(self) ==
  LET patterns == get_patterns(self.genre) IN
    IF patterns # <<>>
      THEN [self EXCEPT !.pattern_index = (self.pattern_index + 1) % Len(patterns)]
      ELSE self

prev_pattern(self) ==
  LET patterns == get_patterns(self.genre) IN
    IF patterns # <<>>
      THEN [self EXCEPT !.pattern_index =
              IF self.pattern_index = 0 THEN Len(patterns) - 1
              ELSE self.pattern_index - 1]
      ELSE self

\* The notes left on by a stream of emitted events.
RECURSIVE StillOn(_, _)
StillOn(on, evs) ==
  IF evs = <<>> THEN on
  ELSE LET e == Head(evs) IN
    StillOn(IF e.type = "NoteOn" THEN on \cup {e.note}
            ELSE IF e.type = "NoteOff" THEN on \ {e.note}
            ELSE on,
            Tail(evs))

NoInput == [buttons |-> {}, whammy |-> 0]

\* The fields a process call reads before it changes them.
Entry ==
  [last_strum_state |-> FALSE, active_notes |-> <<>>, trigger_frets |-> <<>>]

MapperInit ==
  /\ mapper \in {Mapper_new(g) : g \in Genres} \cup
                {new_with_key_mode(g, k, FALSE) : g \in Genres, k \in KeyRootInputs}
  /\ events = <<>>
  /\ m_op = "new"
  /\ input = NoInput
  /\ sounding = {}
  /\ trigger_frets = <<>>
  /\ before = Entry

MapperReturns(r, op) ==
  /\ mapper' = r.self
  /\ events' = r.events
  /\ m_op' = op
  /\ sounding' = StillOn(sounding, r.events)

MapperSets(self, op) ==
  /\ mapper' = self
  /\ events' = <<>>
  /\ m_op' = op
  /\ UNCHANGED <<input, sounding, trigger_frets, before>>

ProcessOf(state) ==
  /\ MapperReturns(process(mapper, state), "process")
  /\ input' = state
  /\ trigger_frets' = IF \E i \in 1..Len(events') : events'[i].type = "NoteOn"
                        THEN pressed_frets(state)
                        ELSE IF sounding' = {} THEN <<>> ELSE trigger_frets
  /\ before' = [last_strum_state |-> mapper.last_strum_state,
                active_notes |-> mapper.active_notes,
                trigger_frets |-> trigger_frets]

Process == \E state \in ControllerStates : ProcessOf(state)

\* Snapshots taken with the whammy bar at rest.
RestStates == {[state EXCEPT !.whammy = 0] : state \in ControllerStates}

ProcessAtRest == \E state \in RestStates : ProcessOf(state)

Panic ==
  /\ MapperReturns(panic(mapper), "panic")
  /\ trigger_frets' = IF sounding' = {} THEN <<>> ELSE trigger_frets
  /\ UNCHANGED <<input, before>>

NextPattern == MapperSets(next_pattern(mapper), "next_pattern")

PrevPattern == MapperSets(prev_pattern(mapper), "prev_pattern")

SetGenre == \E g \in Genres : MapperSets(set_genre(mapper, g), "set_genre")

\* ------------------------------------------------------------------------
\* Mapper properties
\* ------------------------------------------------------------------------
\* The NoteOn / NoteOff events of an event list, in order.
NoteEvents(evs) == SelectSeq(evs, LAMBDA e : e.type \in {"NoteOn", "NoteOff"})

NoteOnNotes(evs) == {evs[i].note : i \in {k \in 1..Len(evs) : evs[k].type = "NoteOn"}}

NoOnBeforeOff(evs) ==
  \A i, j \in 1..Len(evs) :
    (i < j /\ evs[i].type = "NoteOn") => evs[j].type # "NoteOff"

\* The last call was a process call that saw the strum go from s0 to s1.
ProcessedEdge(s0, s1) ==
  /\ m_op = "process"
  /\ before.last_strum_state = s0
  /\ is_strumming(input) = s1

\* C1: a process call on a strum 0->1 edge returns, as its note events, one
\* NoteOff per previously active note followed by one NoteOn (velocity 100)
\* per note of the chord resolved from the pressed frets, or a single NoteOn
\* for 40 + key_root when no fret is pressed; no NoteOn precedes a NoteOff;
\* afterwards active_notes is exactly the notes just turned on.  (The only
\* other event of such a call is the trailing PitchBend of a deflected whammy.)
C1_StrumTrigger ==
  ProcessedEdge(FALSE, TRUE) =>
    LET frets == pressed_frets(input)
        chord == fret_combo_to_chord(mapper, frets)
        ons == IF frets = <<>>
                 THEN <<NoteOn(40 + mapper.key_root, 100)>>
                 ELSE note_ons(to_midi_notes(chord[1], 40 + mapper.key_root))
    IN  /\ frets # <<>> => chord # <<>>
        /\ NoteEvents(events) = note_offs(before.active_notes) \o ons
        /\ NoOnBeforeOff(events)
        /\ \A i \in 1..Len(events) :
             events[i].type \notin {"NoteOn", "NoteOff"} =>
               (i = Len(events) /\ events[i].type = "PitchBend")
        /\ Range(mapper.active_notes) = NoteOnNotes(events)
        /\ Len(mapper.active_notes) = Cardinality(NoteOnNotes(events))

\* A strum trigger with two frets held has just sounded a chord of several notes.
C1_Witness ==
  /\ ProcessedEdge(FALSE, TRUE)
  /\ Len(pressed_frets(input)) = 2
  /\ Len(events) >= 2
  /\ \A i \in 1..Len(events) : events[i].type = "NoteOn"
  /\ Range(mapper.active_notes) = NoteOnNotes(events)

\* C2: a process call on a strum 1->0 edge emits a NoteOff for every active
\* note and no NoteOn; after it, whatever process and panic calls came before,
\* every note that was turned on has been turned off and active_notes is empty.
C2_StrumRelease ==
  ProcessedEdge(TRUE, FALSE) =>
    /\ \A n \in Range(before.active_notes) :
         \E i \in 1..Len(events) : events[i] = NoteOff(n)
    /\ NoteOnNotes(events) = {}
    /\ sounding = {}
    /\ mapper.active_notes = <<>>

\* A strum release has just turned off a chord of several notes.
C2_Witness ==
  /\ ProcessedEdge(TRUE, FALSE)
  /\ Len(before.active_notes) >= 2
  /\ NoteEvents(events) = note_offs(before.active_notes)
  /\ sounding = {}
  /\ mapper.active_notes = <<>>

\* C3: a process call without a strum edge re-triggers (NoteOff for all
\* active notes, then NoteOn for the chord of the new frets) exactly when
\* notes are sounding and the pressed frets differ from those of the last
\* trigger; otherwise it emits no NoteOn and no NoteOff.
C3_FretRetrigger ==
  (ProcessedEdge(TRUE, TRUE) \/ ProcessedEdge(FALSE, FALSE)) =>
    LET frets == pressed_frets(input) IN
      IF before.active_notes # <<>> /\ frets # before.trigger_frets
        THEN NoteEvents(events) =
               note_offs(before.active_notes) \o note_ons(trigger_notes(mapper, frets))
        ELSE NoteEvents(events) = <<>>

\* A fret change under a held strum has just released one chord and sounded another.
C3_Witness ==
  /\ ProcessedEdge(TRUE, TRUE)
  /\ before.active_notes # <<>>
  /\ pressed_frets(input) # before.trigger_frets
  /\ Len(events) >= 2
  /\ events[1].type = "NoteOff"
  /\ NoteOnNotes(events) # {}

\* ------------------------------------------------------------------------
\* crates/audio/src/synth.rs: FallbackSynth
\* ------------------------------------------------------------------------
MAX_VOICES == 16

\* Samples an instrument's attack and release take (sample_rate * attack_time,
\* sample_rate * release_time); the envelope is kept in units of
\* 1 / (AttackSamples * ReleaseSamples).
AttackSamples == 2
ReleaseSamples == 2

EnvFull == AttackSamples * ReleaseSamples

\* MIDI notes sent to the synthesizer.
SynthNotes == {60}

Instruments == {"CleanElectricGuitar", "DistortedGuitar"}

\* NoteOn events, and releasing events (NoteOff, panic, instrument change),
\* handled in one run; rendering is not limited.
MaxNoteOns == 17
MaxReleases == 1

VARIABLES
  synth,      \* the FallbackSynth struct
  s_op,       \* the last event handled: "new", "note_on", "note_off",
              \* "all_notes_off" or "set_instrument"
  s_note,     \* the note of that event, 0 when it has none
  n_on,       \* NoteOn events handled so far
  n_rel       \* releasing events handled so far

synth_vars == <<synth, s_op, s_note, n_on, n_rel>>

Voice_new == [note |-> 0, envelope_stage |-> "Off", envelope_value |-> 0]

FallbackSynth_new ==
  [voices |-> [i \in 1..MAX_VOICES |-> Voice_new],
   pitch_bend |-> 0,
   current_instrument |-> "CleanElectricGuitar"]

is_active(voice) == voice.envelope_stage # "Off"

trigger(voice, note) ==
  [voice EXCEPT !.note = note, !.envelope_stage = "Attack", !.envelope_value = 0]

\* A release that leaves a voice still in its attack sounding.
release_sustain_only(voice) ==
  IF voice.envelope_stage = "Sustain"
    THEN [voice EXCEPT !.envelope_stage = "Release"]
    ELSE voice

release(voice) ==
  IF voice.envelope_stage = "Attack" \/ voice.envelope_stage = "Sustain"
    THEN [voice EXCEPT !.envelope_stage = "Release"]
    ELSE voice

\* The envelope update of one sample (synth.rs:104-136).
render_sample(voice) ==
  CASE voice.envelope_stage = "Attack" ->
         LET v == voice.envelope_value + ReleaseSamples IN
           IF v >= EnvFull
             THEN [voice EXCEPT !.envelope_value = EnvFull, !.envelope_stage = "Sustain"]
             ELSE [voice EXCEPT !.envelope_value = v]
    [] voice.envelope_stage = "Sustain" -> voice
    [] voice.envelope_stage = "Release" ->
         LET v == voice.envelope_value - AttackSamples IN
           IF v <= 0
             THEN [voice EXCEPT !.envelope_value = 0, !.envelope_stage = "Off"]
             ELSE [voice EXCEPT !.envelope_value = v]
    [] voice.envelope_stage = "Off" -> voice

RECURSIVE render_samples(_, _)
render_samples(voice, frames) ==
  IF frames = 0 THEN voice ELSE render_samples(render_sample(voice), frames - 1)

\* Index of the first inactive voice, 0 when every voice is active.
find_free_voice(voices) ==
  LET free == {i \in 1..MAX_VOICES : ~is_active(voices[i])} IN
    IF free = {} THEN 0 ELSE CHOOSE i \in free : \A j \in free : i <= j

\* A voice choice that steals the last voice instead of the first.
note_on_voice_last(voices) ==
  IF find_free_voice(voices) # 0 THEN find_free_voice(voices) ELSE MAX_VOICES

\* The voice a note_on takes: the first free one, else the first voice.
note_on_voice(voices) ==
  IF find_free_voice(voices) # 0 THEN find_free_voice(voices) ELSE 1

note_on(self, note, velocity) ==
  [self EXCEPT !.voices[note_on_voice(self.voices)] = trigger(@, note)]

note_off(self, note) ==
  [self EXCEPT !.voices = [i \in 1..MAX_VOICES |->
     IF self.voices[i].note = note /\ is_active(self.voices[i])
       THEN release(self.voices[i])
       ELSE self.voices[i]]]

all_notes_off(self) ==
  [self EXCEPT !.voices = [i \in 1..MAX_VOICES |-> release(self.voices[i])]]

set_instrument(self, instrument) ==
  all_notes_off([self EXCEPT !.current_instrument = instrument])

render(self, frames) ==
  [self EXCEPT !.voices = [i \in 1..MAX_VOICES |->
     IF is_active(self.voices[i])
       THEN render_samples(self.voices[i], frames)
       ELSE self.voices[i]]]

active_voice_count(self) ==
  Cardinality({i \in 1..MAX_VOICES : is_active(self.voices[i])})

SynthInit ==
  /\ synth = FallbackSynth_new
  /\ s_op = "new"
  /\ s_note = 0
  /\ n_on = 0
  /\ n_rel = 0

\* Notes of the NoteOff events: a sounding one and one no voice plays.
NoteOffNotes == SynthNotes \cup {61}

SynthNoteOnOf(note) ==
  /\ n_on < MaxNoteOns
  /\ synth' = note_on(synth, note, 100)
  /\ s_op' = "note_on"
  /\ s_note' = note
  /\ n_on' = n_on + 1
  /\ UNCHANGED n_rel

SynthNoteOn == \E note \in SynthNotes : SynthNoteOnOf(note)

Releases(next, op, note) ==
  /\ n_rel < MaxReleases
  /\ synth' = next
  /\ s_op' = op
  /\ s_note' = note
  /\ n_rel' = n_rel + 1
  /\ UNCHANGED n_on

SynthNoteOffOf(note) == Releases(note_off(synth, note), "note_off", note)

SynthNoteOff == \E note \in NoteOffNotes : SynthNoteOffOf(note)

SynthAllNotesOff == Releases(all_notes_off(synth), "all_notes_off", 0)

SynthSetInstrument ==
  \E instrument \in Instruments :
    Releases(set_instrument(synth, instrument), "set_instrument", 0)

\* Frames of the buffers handed to render.
BufferFrames == {1, 2}

SynthRender ==
  \E frames \in BufferFrames :
    /\ synth' = render(synth, frames)
    /\ UNCHANGED <<s_op, s_note, n_on, n_rel>>

\* ------------------------------------------------------------------------
\* crates/audio/src/lib.rs: AudioOutput, its event queue and control channel
\* ------------------------------------------------------------------------
\* HeapRb::<MusicEvent>::new(1024)
RingCapacity == 1024

\* Streams a run creates: the initial one and the reconnected ones.
MaxStreams == 3

\* Events and commands left pending at a time where the queue is not meant
\* to fill up.
MaxPending == 2

\* The notes of the events sent, one after the other and over again.
EventNotes == <<60, 64>>

\* The soundfont files asked for: one that loads, one that is not there.
SoundFontPaths == {"guitar.sf2", "missing.sf2"}

\* The EngineControl values sent; path is the argument of LoadSoundFont, a
\* variant of builds with the soundfont feature.
EngineControls ==
  {[type |-> "UseFallbackSynth", instrument |-> "", path |-> "", value |-> 0,
    enabled |-> FALSE]} \cup
  {[type |-> "SetVirtualInstrument", instrument |-> i, path |-> "", value |-> 0,
    enabled |-> FALSE] : i \in Instruments} \cup
  {[type |-> "LoadSoundFont", instrument |-> "", path |-> p, value |-> 0,
    enabled |-> FALSE] : p \in SoundFontPaths}

\* The settings sent: a release multiplier of 2.0 (in tenths), sustain mode
\* on and off, a sustain release time of 1 s (in hundredths of a second),
\* all within the ranges the synthesizer clamps to.
SettingControls ==
  {[type |-> "SetReleaseMultiplier", instrument |-> "", path |-> "", value |-> 20,
    enabled |-> FALSE]} \cup
  {[type |-> "SetSustainEnabled", instrument |-> "", path |-> "", value |-> 0,
    enabled |-> e] : e \in BOOLEAN} \cup
  {[type |-> "SetSustainReleaseTime", instrument |-> "", path |-> "", value |-> 100,
    enabled |-> FALSE]}

VARIABLES
  output,       \* the AudioOutput struct; each field holds the number of the
                \* create_with_device call that made the object it refers to
  ring,         \* the events in the ring buffer output.event_producer feeds
  channel,      \* the commands in the channel output.engine_control_tx feeds
  engine,       \* the AudioEngine owned by the callback of output._stream
  error_flags,  \* the stream_error flag made by each create_with_device call
  created,      \* create_with_device calls that succeeded
  next_event,   \* index in EventNotes of the next event to send: the one
                \* after the last event accepted
  callback,     \* where the data callback of output._stream is: "idle"
                \* between two calls, "events" in its loop over the events
  a_call,       \* the last call on the AudioOutput and its result
  reported,     \* the stream in use has reported a device error
  rejected,     \* a send_event has found the queue full
  cb_done       \* what the callback running, or the last one, has done so
                \* far: how many commands and whether any event it has
                \* applied, and what it has asked of the operating system

audio_vars ==
  <<output, ring, channel, engine, error_flags, created, next_event,
    callback, a_call, reported, rejected, cb_done>>

\* f32::clamp
clamp(x, low, high) == IF x < low THEN low ELSE IF x > high THEN high ELSE x

\* The settings of FallbackSynth::new: release multiplier 1.0 (in tenths),
\* sustain mode off, sustain release time 0.5 s (in hundredths).
FallbackSettings_new ==
  [release_multiplier |-> 10, sustain_enabled |-> FALSE, sustain_release_time |-> 50]

\* The part of the engine the events and commands are seen in: the note of
\* the last NoteOn not yet turned off, the fallback synthesizer's instrument,
\* which SynthEngine variant plays, the engine's release multiplier and the
\* settings of its fallback synthesizer; requested holds the settings last
\* asked for through the control channel.
AudioEngine_new ==
  [note |-> 0, current_instrument |-> "CleanElectricGuitar", backend |-> "Fallback",
   release_multiplier |-> 10, settings |-> FallbackSettings_new,
   requested |-> FallbackSettings_new]

handle_event(eng, event) ==
  CASE event.type = "NoteOn" -> [eng EXCEPT !.note = event.note]
    [] event.type = "NoteOff" ->
         IF eng.note = event.note THEN [eng EXCEPT !.note = 0] ELSE eng
    [] event.type = "PanicAllNotesOff" -> [eng EXCEPT !.note = 0]
    [] OTHER -> eng

\* AudioEngine::load_soundfont: SoundFontSynth::new, then
\* SoundFontSynth::load_soundfont opens and reads the file; an error leaves
\* the engine as it was.
load_soundfont(eng, path) ==
  IF path = "missing.sf2" THEN eng
  ELSE [AudioEngine_new EXCEPT !.backend = "SoundFont",
                               !.release_multiplier = eng.release_multiplier,
                               !.requested = eng.requested]

\* AudioEngine::use_fallback_synth: a FallbackSynth::new takes the place of
\* the synthesizer; the engine's own release_multiplier stays.
use_fallback_synth(eng) ==
  [AudioEngine_new EXCEPT !.release_multiplier = eng.release_multiplier,
                          !.requested = eng.requested]

\* AudioEngine::set_release_multiplier, set_sustain_enabled and
\* set_sustain_release_time: only the fallback synthesizer takes them.
set_release_multiplier(eng, m) ==
  [eng EXCEPT !.release_multiplier = m,
              !.requested.release_multiplier = m,
              !.settings.release_multiplier =
                 IF eng.backend = "Fallback" THEN clamp(m, 1, 100) ELSE @]

set_sustain_enabled(eng, on) ==
  [eng EXCEPT !.requested.sustain_enabled = on,
              !.settings.sustain_enabled = IF eng.backend = "Fallback" THEN on ELSE @]

set_sustain_release_time(eng, time) ==
  [eng EXCEPT !.requested.sustain_release_time = time,
              !.settings.sustain_release_time =
                 IF eng.backend = "Fallback" THEN clamp(time, 5, 1000) ELSE @]

handle_command(eng, command) ==
  CASE command.type = "UseFallbackSynth" -> use_fallback_synth(eng)
    [] command.type = "SetVirtualInstrument" ->
         IF eng.backend = "Fallback"
         THEN [eng EXCEPT !.note = 0, !.current_instrument = command.instrument]
         ELSE [use_fallback_synth(eng) EXCEPT !.current_instrument = command.instrument]
    [] command.type = "SetReleaseMultiplier" -> set_release_multiplier(eng, command.value)
    [] command.type = "SetSustainEnabled" -> set_sustain_enabled(eng, command.enabled)
    [] command.type = "SetSustainReleaseTime" -> set_sustain_release_time(eng, command.value)
    [] command.type = "LoadSoundFont" -> load_soundfont(eng, command.path)
    [] OTHER -> eng

\* What applying a command asks of the allocator and of the file system.
\* load_soundfont builds an oxisynth Synth and a SoundFont on the heap and
\* reads the file; FallbackSynth::new and the setters work on fields and
\* fixed arrays.
command_effects(command) ==
  IF command.type = "LoadSoundFont" THEN {"allocation", "file_io"} ELSE {}

RECURSIVE commands_effects(_)
commands_effects(commands) ==
  IF commands = <<>> THEN {}
  ELSE command_effects(Head(commands)) \cup commands_effects(Tail(commands))

\* while let Ok(command) = rx.try_recv() { .. }
RECURSIVE handle_commands(_, _)
handle_commands(eng, commands) ==
  IF commands = <<>> THEN eng
  ELSE handle_commands(handle_command(eng, Head(commands)), Tail(commands))

\* The objects of the id-th successful create_with_device call.
create_with_device(id) ==
  [_stream |-> id, event_producer |-> id, engine_control_tx |-> id,
   stream_error |-> id]

\* Ok branch of try_reconnect: the stream_error field is not replaced.
try_reconnect(self, new_output) ==
  [self EXCEPT !._stream = new_output._stream,
               !.event_producer = new_output.event_producer,
               !.engine_control_tx = new_output.engine_control_tx]

has_stream_error == error_flags[output.stream_error]

\* A full queue that makes room by dropping its oldest event.
send_event_overwriting(queue, event) ==
  IF Len(queue) >= RingCapacity
    THEN [queue |-> Append(Tail(queue), event), result |-> "Err"]
    ELSE [queue |-> Append(queue, event), result |-> "Ok"]

\* Producer::try_push on the ring buffer, mapped to a Result.
send_event(queue, event) ==
  IF Len(queue) >= RingCapacity
    THEN [queue |-> queue, result |-> "Err"]
    ELSE [queue |-> Append(queue, event), result |-> "Ok"]

Called(op, result) == [op |-> op, result |-> result]

CallbackDone(n, ev, fx) ==
  [commands |-> n, events |-> ev, effects |-> fx]

AudioInit ==
  /\ output = create_with_device(1)
  /\ ring = <<>>
  /\ channel = <<>>
  /\ engine = AudioEngine_new
  /\ error_flags = [id \in 1..MaxStreams |-> FALSE]
  /\ created = 1
  /\ next_event = 1
  /\ callback = "idle"
  /\ a_call = Called("new", "Ok")
  /\ reported = FALSE
  /\ rejected = FALSE
  /\ cb_done = CallbackDone(0, FALSE, {})

SendEvent ==
  LET sent == send_event(ring, NoteOn(EventNotes[next_event], 100)) IN
    /\ ring' = sent.queue
    /\ a_call' = Called("send_event", sent.result)
    /\ next_event' = IF sent.result = "Ok"
                     THEN (next_event % Len(EventNotes)) + 1
                     ELSE next_event
    /\ rejected' = (rejected \/ sent.result = "Err")
    /\ UNCHANGED <<output, channel, engine, error_flags, created, callback, reported, cb_done>>

\* send_event while only a few events wait for the callback.
SendEventSoon == Len(ring) < MaxPending /\ SendEvent

\* use_fallback_synth, set_virtual_instrument and load_soundfont: a send on
\* the channel.
SendControl ==
  \E command \in EngineControls :
    /\ Len(channel) < MaxPending
    /\ channel' = Append(channel, command)
    /\ a_call' = Called("send_control", "Ok")
    /\ UNCHANGED <<output, ring, engine, error_flags, created, next_event,
                   callback, reported, rejected, cb_done>>

\* set_release_multiplier, set_sustain_enabled, set_sustain_release_time of
\* the AudioOutput.
SendSetting ==
  \E command \in SettingControls :
    /\ Len(channel) < MaxPending
    /\ channel' = Append(channel, command)
    /\ a_call' = Called("send_control", "Ok")
    /\ UNCHANGED <<output, ring, engine, error_flags, created, next_event,
                   callback, reported, rejected, cb_done>>

\* Variant: a callback takes one command off the channel.
AudioCallbackBegin_one_command ==
  LET first == IF channel = <<>> THEN <<>> ELSE <<Head(channel)>> IN
    /\ callback = "idle"
    /\ callback' = "events"
    /\ engine' = handle_commands(engine, first)
    /\ channel' = IF channel = <<>> THEN <<>> ELSE Tail(channel)
    /\ cb_done' = CallbackDone(Len(first), FALSE, commands_effects(first))
    /\ UNCHANGED <<output, ring, error_flags, created, next_event, a_call,
                   reported, rejected>>

\* The data callback of the stream in use starts: it takes the commands off
\* the channel.
AudioCallbackBegin ==
  /\ callback = "idle"
  /\ callback' = "events"
  /\ engine' = handle_commands(engine, channel)
  /\ channel' = <<>>
  /\ cb_done' = CallbackDone(Len(channel), FALSE, commands_effects(channel))
  /\ UNCHANGED <<output, ring, error_flags, created, next_event, a_call,
                 reported, rejected>>

\* audio_callback: one turn of while let Some(event) = try_pop(..).
AudioCallbackPop ==
  /\ callback = "events"
  /\ ring # <<>>
  /\ engine' = handle_event(engine, Head(ring))
  /\ ring' = Tail(ring)
  /\ cb_done' = [cb_done EXCEPT !.events = TRUE]
  /\ UNCHANGED <<output, channel, error_flags, created, next_event, callback,
                 a_call, reported, rejected>>

\* audio_callback: try_pop finds the queue empty, the buffer is rendered.
AudioCallbackRender ==
  /\ callback = "events"
  /\ ring = <<>>
  /\ callback' = "idle"
  /\ UNCHANGED <<output, ring, channel, engine, error_flags, created,
                 next_event, a_call, reported, rejected, cb_done>>

\* The error callback of the stream in use.
StreamError ==
  /\ error_flags' = [error_flags EXCEPT ![output._stream] = TRUE]
  /\ reported' = TRUE
  /\ UNCHANGED <<output, ring, channel, engine, created, next_event, callback,
                 a_call, rejected, cb_done>>

\* try_reconnect when create_with_device finds a device: the old stream, with
\* its consumer, receiver and engine, is dropped between two of its callbacks.
TryReconnectOk ==
  /\ callback = "idle"
  /\ created < MaxStreams
  /\ created' = created + 1
  /\ output' = try_reconnect(output, create_with_device(created + 1))
  /\ ring' = <<>>
  /\ channel' = <<>>
  /\ engine' = AudioEngine_new
  /\ error_flags' = [error_flags EXCEPT ![output.stream_error] = FALSE]
  /\ reported' = FALSE
  /\ a_call' = Called("try_reconnect", "Ok")
  /\ cb_done' = CallbackDone(0, FALSE, {})
  /\ UNCHANGED <<next_event, callback, rejected>>

\* try_reconnect when create_with_device fails.
TryReconnectErr ==
  /\ a_call' = Called("try_reconnect", "Err")
  /\ UNCHANGED <<output, ring, channel, engine, error_flags, created,
                 next_event, callback, reported, rejected, cb_done>>

\* ------------------------------------------------------------------------
\* crates/song/src/transport.rs: Transport
\* ------------------------------------------------------------------------
\* Speed multipliers are counted in quarters (3 is 0.75x, 4 is 1.0x), the
\* clock in whole seconds, beats in units of 1 / BeatUnit of a beat.
SpeedUnit == 4
BeatUnit == 60 * SpeedUnit

\* Seconds the clock runs.
MaxTime == 4

TempoInputs == {90, 120}
TimeSigInputs == {<<4, 4>>, <<3, 4>>}
CountInInputs == {0, 2}
SpeedInputs == {3, 4, 5}
\* Targets of seek, in beats.
SeekInputs == {0, 8}

VARIABLES
  transport,  \* the Transport struct
  now,        \* what Instant::now() returns
  t_call,     \* the last call, "tick" once time has passed since
  t_result,   \* what the last get_current_beat returned, <<>> before any
  anchor,     \* the beat and time the position is to be counted from
  stopped     \* stop was called, and neither play nor seek since

transport_vars == <<transport, now, t_call, t_result, anchor, stopped>>

Transport_new(bpm, time_sig, count_in_bars) ==
  [bpm |-> bpm,
   time_sig |-> time_sig,
   count_in_bars |-> count_in_bars,
   speed_multiplier |-> SpeedUnit,
   is_playing |-> FALSE,
   current_beat |-> 0,
   start_instant |-> <<>>,
   paused_at_beat |-> 0]

\* (60.0 / bpm) / speed_multiplier, as a fraction of a second.
seconds_per_beat(self) ==
  [num |-> 60 * SpeedUnit, den |-> self.bpm * self.speed_multiplier]

\* seconds / seconds_per_beat
seconds_to_beats(self, seconds) ==
  (seconds * BeatUnit * seconds_per_beat(self).den) \div seconds_per_beat(self).num

update_current_beat(self, clock) ==
  IF self.start_instant # <<>>
    THEN [self EXCEPT !.current_beat =
            self.paused_at_beat + seconds_to_beats(self, clock - self.start_instant[1])]
    ELSE self

get_current_beat(self, clock) ==
  LET updated == IF self.is_playing THEN update_current_beat(self, clock) ELSE self IN
    [self |-> updated, result |-> updated.current_beat]

play(self, clock) ==
  IF ~self.is_playing
    THEN [self EXCEPT !.is_playing = TRUE,
                      !.start_instant = <<clock>>,
                      !.paused_at_beat = self.current_beat]
    ELSE self

pause(self, clock) ==
  IF self.is_playing
    THEN LET updated == update_current_beat(self, clock) IN
           [updated EXCEPT !.is_playing = FALSE,
                           !.paused_at_beat = updated.current_beat,
                           !.start_instant = <<>>]
    ELSE self

\* A stop that forgets the count-in and rewinds to beat 0.
stop_to_zero(self) ==
  [self EXCEPT !.is_playing = FALSE,
               !.current_beat = 0,
               !.paused_at_beat = 0,
               !.start_instant = <<>>]

stop(self) ==
  LET beat == -(self.count_in_bars * self.time_sig[1] * BeatUnit) IN
    [self EXCEPT !.is_playing = FALSE,
                 !.current_beat = beat,
                 !.paused_at_beat = beat,
                 !.start_instant = <<>>]

seek(self, beat, clock) ==
  LET was_playing == self.is_playing
      paused == IF was_playing THEN pause(self, clock) ELSE self
      moved == [paused EXCEPT !.current_beat = beat, !.paused_at_beat = beat]
  IN IF was_playing THEN play(moved, clock) ELSE moved

\* A set_speed that only stores the multiplier, so that the time already
\* played is converted again at the new speed.
set_speed_rescaling(self, multiplier, clock) ==
  [self EXCEPT !.speed_multiplier = multiplier]

\* A set_speed that does not restart the clock while playing.
set_speed_keeping_start(self, multiplier, clock) ==
  LET was_playing == self.is_playing
      updated == IF was_playing THEN update_current_beat(self, clock) ELSE self
      held == IF was_playing
                THEN [updated EXCEPT !.paused_at_beat = updated.current_beat]
                ELSE updated
  IN [held EXCEPT !.speed_multiplier = multiplier]

set_speed(self, multiplier, clock) ==
  LET was_playing == self.is_playing
      updated == IF was_playing THEN update_current_beat(self, clock) ELSE self
      held == IF was_playing
                THEN [updated EXCEPT !.paused_at_beat = updated.current_beat]
                ELSE updated
      set == [held EXCEPT !.speed_multiplier = multiplier]
  IN IF was_playing THEN [set EXCEPT !.start_instant = <<clock>>] ELSE set

\* The position the clock is to show: the anchor's beat, plus, while playing, the
\* seconds since the anchor times bpm times speed_multiplier over 60.
Position(playing, speed) ==
  IF playing
    THEN anchor.beat + (now - anchor.time) * transport.bpm * speed
    ELSE anchor.beat

TransportInit ==
  /\ transport \in {Transport_new(bpm, time_sig, count_in_bars) :
                      bpm \in TempoInputs, time_sig \in TimeSigInputs,
                      count_in_bars \in CountInInputs}
  /\ now = 0
  /\ t_call = "new"
  /\ t_result = <<>>
  /\ anchor = [beat |-> 0, time |-> 0]
  /\ stopped = FALSE

TransportIdle ==
  /\ transport = Transport_new(120, <<4, 4>>, 2)
  /\ now = 0
  /\ t_call = "new"
  /\ t_result = <<>>
  /\ anchor = [beat |-> 0, time |-> 0]
  /\ stopped = FALSE

Play ==
  /\ transport' = play(transport, now)
  /\ t_call' = "play"
  /\ anchor' = IF transport.is_playing THEN anchor
               ELSE [beat |-> anchor.beat, time |-> now]
  /\ stopped' = FALSE
  /\ UNCHANGED <<now, t_result>>

Pause ==
  /\ transport' = pause(transport, now)
  /\ t_call' = "pause"
  /\ anchor' = [beat |-> Position(transport.is_playing, transport.speed_multiplier),
                time |-> now]
  /\ UNCHANGED <<now, t_result, stopped>>

Stop ==
  /\ transport' = stop(transport)
  /\ t_call' = "stop"
  /\ anchor' = [beat |-> -(transport.count_in_bars * transport.time_sig[1] * BeatUnit),
                time |-> now]
  /\ stopped' = TRUE
  /\ UNCHANGED <<now, t_result>>

Seek ==
  \E beat \in SeekInputs :
    /\ transport' = seek(transport, beat * BeatUnit, now)
    /\ t_call' = "seek"
    /\ anchor' = [beat |-> beat * BeatUnit, time |-> now]
    /\ stopped' = FALSE
    /\ UNCHANGED <<now, t_result>>

SetSpeed ==
  \E multiplier \in SpeedInputs :
    /\ transport' = set_speed(transport, multiplier, now)
    /\ t_call' = "set_speed"
    /\ anchor' = [beat |-> Position(transport.is_playing, transport.speed_multiplier),
                  time |-> now]
    /\ UNCHANGED <<now, t_result, stopped>>

GetCurrentBeat ==
  /\ transport' = get_current_beat(transport, now).self
  /\ t_result' = <<get_current_beat(transport, now).result>>
  /\ t_call' = "get_current_beat"
  /\ UNCHANGED <<now, anchor, stopped>>

\* Wall-clock time passes.
Tick ==
  /\ now < MaxTime
  /\ now' = now + 1
  /\ t_call' = "tick"
  /\ UNCHANGED <<transport, t_result, anchor, stopped>>

\* ------------------------------------------------------------------------
\* song: chord events, hit detection
\* Beats are counted in units of 1/BeatUnit beat, as in the Transport.
\* ------------------------------------------------------------------------
HIT_WINDOW == BeatUnit \div 2

\* The fret names in the order of String's Ord.
FretNames == <<"BLUE", "GREEN", "ORANGE", "RED", "YELLOW">>

FretRank(fret) == CHOOSE i \in 1..Len(FretNames) : FretNames[i] = fret

ChordEvent(beat, dur, chord) == [beat |-> beat, dur |-> dur, chord |-> chord]

Hit(event, accuracy) == [type |-> "Hit", event |-> event, accuracy |-> accuracy]

Miss(reason) == [type |-> "Miss", reason |-> reason]

HitDetector_new(chord_mappings) ==
  [chord_mappings |-> chord_mappings,
   hit_events |-> <<>>,
   sustaining_event |-> <<>>]

HitDetector_reset(self) ==
  [self EXCEPT !.hit_events = <<>>, !.sustaining_event = <<>>]

\* An is_already_hit that finds nothing.
is_already_hit_never(self, beat, chord) == FALSE

is_already_hit(self, beat, chord) ==
  \E i \in 1..Len(self.hit_events) :
    /\ 100 * Abs(self.hit_events[i].beat - beat) < BeatUnit
    /\ self.hit_events[i].chord = chord

\* Vec::sort on the fret names.
RECURSIVE sorted(_)
sorted(frets) ==
  IF frets = <<>> THEN <<>>
  ELSE LET first == Head(frets)
           rest == sorted(Tail(frets))
           lower == SelectSeq(rest, LAMBDA f : FretRank(f) < FretRank(first))
           upper == SelectSeq(rest, LAMBDA f : FretRank(f) >= FretRank(first))
       IN lower \o <<first>> \o upper

\* A frets_match that compares the lists in the order they are given.
frets_match_in_order(pressed, required) == pressed = required

frets_match(pressed, required) ==
  IF Len(pressed) # Len(required) THEN FALSE
  ELSE sorted(pressed) = sorted(required)

\* A selection of candidates whose window leaves out its two ends.
candidates_open_window(self, current_beat, chord_events) ==
  SelectSeq(chord_events, LAMBDA e :
    /\ Abs(e.beat - current_beat) < HIT_WINDOW
    /\ ~is_already_hit(self, e.beat, e.chord))

candidates(self, current_beat, chord_events) ==
  SelectSeq(chord_events, LAMBDA e :
    /\ Abs(e.beat - current_beat) <= HIT_WINDOW
    /\ ~is_already_hit(self, e.beat, e.chord))

check_strum(self, current_beat, pressed, chord_events) ==
  LET cands == candidates(self, current_beat, chord_events)
      matching == {i \in 1..Len(cands) :
                     /\ cands[i].chord \in DOMAIN self.chord_mappings
                     /\ frets_match(pressed, self.chord_mappings[cands[i].chord])}
  IN IF cands = <<>>
       THEN [self |-> self, result |-> Miss("NoEventInWindow")]
     ELSE IF matching = {}
       THEN [self |-> self, result |-> Miss("WrongFrets")]
     ELSE
       LET event == cands[CHOOSE i \in matching : \A j \in matching : i <= j]
           required == self.chord_mappings[event.chord]
           accuracy == [num |-> HIT_WINDOW - Abs(event.beat - current_beat),
                        den |-> HIT_WINDOW]
           is_sustain == event.dur >= 2 * BeatUnit
           hit_event == [beat |-> event.beat, chord |-> event.chord,
                         hit_at_beat |-> current_beat]
           sustaining == [chord |-> event.chord,
                          start_beat |-> event.beat,
                          end_beat |-> event.beat + event.dur,
                          required_frets |-> required]
       IN [self |-> [self EXCEPT
                       !.hit_events = Append(@, hit_event),
                       !.sustaining_event = IF is_sustain THEN <<sustaining>> ELSE @],
           result |-> Hit([beat |-> event.beat, chord |-> event.chord,
                           is_sustain |-> is_sustain], accuracy)]

\* An update_sustain that answers without closing the sustain.
update_sustain_keeping(self, current_beat, pressed) ==
  IF self.sustaining_event = <<>> THEN [self |-> self, result |-> FALSE]
  ELSE LET sustain == self.sustaining_event[1] IN
    [self |-> self,
     result |-> /\ current_beat >= sustain.start_beat
                /\ current_beat <= sustain.end_beat
                /\ frets_match(pressed, sustain.required_frets)]

update_sustain(self, current_beat, pressed) ==
  IF self.sustaining_event = <<>> THEN [self |-> self, result |-> FALSE]
  ELSE LET sustain == self.sustaining_event[1] IN
    IF current_beat < sustain.start_beat \/ current_beat > sustain.end_beat
      THEN [self |-> [self EXCEPT !.sustaining_event = <<>>], result |-> FALSE]
    ELSE IF ~frets_match(pressed, sustain.required_frets)
      THEN [self |-> [self EXCEPT !.sustaining_event = <<>>], result |-> FALSE]
    ELSE [self |-> self, result |-> TRUE]

\* ------------------------------------------------------------------------
\* song: scoring
\* ------------------------------------------------------------------------
Scorer_new ==
  [score |-> 0, combo |-> 0, max_combo |-> 0, hits |-> 0, misses |-> 0,
   combo_multiplier |-> 1]

Scorer_reset(self) == Scorer_new

\* The multiplier of a combo, with the steps one hit late.
multiplier_late(combo) ==
  IF combo <= 10 THEN 1 ELSE IF combo <= 20 THEN 2 ELSE IF combo <= 30 THEN 3 ELSE 4

multiplier(combo) ==
  IF combo <= 9 THEN 1 ELSE IF combo <= 19 THEN 2 ELSE IF combo <= 29 THEN 3 ELSE 4

\* A miss that also takes the best combo back.
register_miss_clearing(self) ==
  [self EXCEPT !.combo = 0, !.max_combo = 0, !.combo_multiplier = 1,
               !.misses = @ + 1]

register_miss(self) ==
  [self EXCEPT !.combo = 0, !.combo_multiplier = 1, !.misses = @ + 1]

\* accuracy is the fraction num / den; `as u32` drops the fraction of the points.
register_hit(self, result) ==
  IF result.type = "Hit"
    THEN LET combo == self.combo + 1
             combo_multiplier == multiplier(combo)
             points == (100 * result.accuracy.num * combo_multiplier)
                         \div result.accuracy.den
         IN [self EXCEPT !.combo = combo,
                         !.hits = @ + 1,
                         !.max_combo = IF combo > @ THEN combo ELSE @,
                         !.combo_multiplier = combo_multiplier,
                         !.score = @ + points]
    ELSE register_miss(self)

\* ------------------------------------------------------------------------
\* A HitDetector called with strums, sustain updates and resets
\* ------------------------------------------------------------------------
ChordMappings ==
  [chord \in {"C", "Am", "G"} |->
     CASE chord = "C" -> <<"GREEN", "RED">>
       [] chord = "Am" -> <<"RED", "GREEN">>
       [] chord = "G" -> <<"RED", "RED">>]

EvA == ChordEvent(BeatUnit, 2 * BeatUnit, "C")
EvB == ChordEvent(BeatUnit + 1, 2 * BeatUnit, "C")
EvC == ChordEvent(BeatUnit + HIT_WINDOW \div 2, BeatUnit, "Am")
EvG == ChordEvent(2 * BeatUnit, 2 * BeatUnit, "G")
EvX == ChordEvent(BeatUnit, BeatUnit, "X")

EventInputs == {<<EvA, EvB, EvC, EvG>>, <<EvG, EvC, EvB, EvA>>, <<EvX, EvB>>}

BeatInputs ==
  {HIT_WINDOW - 1, HIT_WINDOW, BeatUnit, BeatUnit + HIT_WINDOW,
   3 * BeatUnit, 3 * BeatUnit + 1}

PressedInputs ==
  {<<"GREEN", "RED">>, <<"RED", "GREEN">>, <<"RED">>, <<"RED", "RED">>}

VARIABLES hit_detector, scorer, chart, song_call, song_input, song_result, hit_log,
          held

song_vars ==
  <<hit_detector, scorer, chart, song_call, song_input, song_result, hit_log,
    held>>

\* The chord event, among those passed, that the Hit is for.
HitEventOf(result, chord_events) ==
  chord_events[CHOOSE i \in 1..Len(chord_events) :
                 /\ chord_events[i].beat = result.event.beat
                 /\ chord_events[i].chord = result.event.chord
                 /\ \A j \in 1..(i - 1) :
                      \/ chord_events[j].beat # result.event.beat
                      \/ chord_events[j].chord # result.event.chord]

\* hit_log lists the events returned as Hit since the last reset; held is the
\* event of the last Hit that opened a sustain, until an update_sustain
\* returns false.
CheckStrum ==
  \E current_beat \in BeatInputs, pressed \in PressedInputs,
     chord_events \in EventInputs :
    LET call == check_strum(hit_detector, current_beat, pressed, chord_events) IN
      /\ hit_detector' = call.self
      /\ song_call' = "check_strum"
      /\ song_input' = [current_beat |-> current_beat,
                        pressed |-> pressed,
                        chord_events |-> chord_events]
      /\ song_result' = call.result
      /\ hit_log' = IF call.result.type = "Hit"
                      THEN Append(hit_log, [beat |-> call.result.event.beat,
                                            chord |-> call.result.event.chord])
                      ELSE hit_log
      /\ held' = IF call.result.type = "Hit" /\ call.result.event.is_sustain
                   THEN <<HitEventOf(call.result, chord_events)>>
                   ELSE held
      /\ UNCHANGED <<scorer, chart>>

UpdateSustain ==
  \E current_beat \in BeatInputs, pressed \in PressedInputs :
    LET call == update_sustain(hit_detector, current_beat, pressed) IN
      /\ hit_detector' = call.self
      /\ song_call' = "update_sustain"
      /\ song_input' = [current_beat |-> current_beat,
                        pressed |-> pressed]
      /\ song_result' = call.result
      /\ held' = IF call.result THEN held ELSE <<>>
      /\ UNCHANGED <<scorer, chart, hit_log>>

Reset ==
  /\ hit_detector' = HitDetector_reset(hit_detector)
  /\ song_call' = "reset"
  /\ song_input' = <<>>
  /\ song_result' = <<>>
  /\ hit_log' = <<>>
  /\ held' = <<>>
  /\ UNCHANGED <<scorer, chart>>

\* ------------------------------------------------------------------------
\* A Scorer given hits and misses
\* ------------------------------------------------------------------------
MaxRegistered == 31
MaxMisses == 1

AccuracyInputs ==
  {[num |-> HIT_WINDOW, den |-> HIT_WINDOW],
   [num |-> HIT_WINDOW - HIT_WINDOW \div 3, den |-> HIT_WINDOW]}

ResultInputs ==
  {Hit([beat |-> 0, chord |-> "C", is_sustain |-> FALSE], accuracy) :
     accuracy \in AccuracyInputs}
    \cup {Miss("WrongFrets")}

RegisterHit ==
  \E result \in ResultInputs :
    /\ scorer.hits + scorer.misses < MaxRegistered
    /\ result.type = "Miss" => scorer.misses < MaxMisses
    /\ scorer' = register_hit(scorer, result)
    /\ song_call' = "register_hit"
    /\ song_input' = result
    /\ song_result' = <<>>
    /\ UNCHANGED <<hit_detector, chart, hit_log, held>>

ScorerReset ==
  /\ scorer' = Scorer_reset(scorer)
  /\ song_call' = "reset"
  /\ song_input' = <<>>
  /\ song_result' = <<>>
  /\ UNCHANGED <<hit_detector, chart, hit_log, held>>

NoMappings == [chord \in {} |-> <<>>]

SongIdle ==
  /\ hit_detector = HitDetector_new(NoMappings)
  /\ scorer = Scorer_new
  /\ chart = <<>>
  /\ song_call = "new"
  /\ song_input = <<>>
  /\ song_result = <<>>
  /\ hit_log = <<>>
  /\ held = <<>>

HitDetectorInit ==
  /\ hit_detector = HitDetector_new(ChordMappings)
  /\ scorer = Scorer_new
  /\ chart = <<>>
  /\ song_call = "new"
  /\ song_input = <<>>
  /\ song_result = <<>>
  /\ hit_log = <<>>
  /\ held = <<>>

\* ------------------------------------------------------------------------
\* song: charts; desktop: the SongPlayer
\* ------------------------------------------------------------------------
Ok(value) == [type |-> "Ok", value |-> value]

Err(error) == [type |-> "Err", error |-> error]

\* The fields of a SongChart that loading and hit detection read.
SongChart(bpm, time_sig, count_in_bars, chords, lanes) ==
  [clock |-> [bpm |-> bpm, time_sig |-> time_sig, count_in_bars |-> count_in_bars],
   mapping |-> [chords |-> chords],
   lanes |-> lanes]

Lane(name, lane_events) == [name |-> name, events |-> lane_events]

\* Every event of every lane, lane after lane.
RECURSIVE flat_map(_)
flat_map(lanes) ==
  IF lanes = <<>> THEN <<>> ELSE Head(lanes).events \o flat_map(Tail(lanes))

\* A validate that leaves the chord events unchecked.
validate_clock_only(self) ==
  IF self.clock.bpm <= 0 THEN Err("BPM must be positive")
  ELSE IF self.clock.time_sig[2] = 0
    THEN Err("Time signature denominator cannot be zero")
  ELSE Ok(<<>>)

validate(self) ==
  LET lane_events == flat_map(self.lanes)
      bad == {i \in 1..Len(lane_events) :
                \/ lane_events[i].chord \notin DOMAIN self.mapping.chords
                \/ lane_events[i].dur <= 0}
  IN IF self.clock.bpm <= 0 THEN Err("BPM must be positive")
     ELSE IF self.clock.time_sig[2] = 0
       THEN Err("Time signature denominator cannot be zero")
     ELSE IF bad # {}
       THEN LET event == lane_events[CHOOSE i \in bad : \A j \in bad : i <= j] IN
              IF event.chord \notin DOMAIN self.mapping.chords
                THEN Err("Chord not found in mapping")
                ELSE Err("Chord duration must be positive")
     ELSE Ok(<<>>)

\* A JSON text is either one serde_json rejects or the document it reads.
from_json(json) ==
  IF json.syntax = "error" THEN Err("parse")
  ELSE IF validate(json.chart).type = "Err" THEN validate(json.chart)
  ELSE Ok(json.chart)

get_chord_events_in_range(self, start_beat, end_beat) ==
  SelectSeq(flat_map(self.lanes), LAMBDA e :
    e.beat >= start_beat /\ e.beat < end_beat)

\* A load_chart that clears the score before it reads the JSON.
load_chart_reset_first(self, json) ==
  LET loaded == from_json(json) IN
    IF loaded.type = "Err"
      THEN [self |-> [self EXCEPT !.scorer = Scorer_reset(@)], result |-> loaded]
      ELSE [self |-> [chart |-> <<loaded.value>>,
                      transport |-> Transport_new(loaded.value.clock.bpm,
                                                  loaded.value.clock.time_sig,
                                                  loaded.value.clock.count_in_bars),
                      hit_detector |-> HitDetector_new(loaded.value.mapping.chords),
                      scorer |-> Scorer_reset(self.scorer)],
            result |-> Ok(<<>>)]

load_chart(self, json) ==
  LET loaded == from_json(json) IN
    IF loaded.type = "Err"
      THEN [self |-> self, result |-> loaded]
      ELSE [self |-> [chart |-> <<loaded.value>>,
                      transport |-> Transport_new(loaded.value.clock.bpm,
                                                  loaded.value.clock.time_sig,
                                                  loaded.value.clock.count_in_bars),
                      hit_detector |-> HitDetector_new(loaded.value.mapping.chords),
                      scorer |-> Scorer_reset(self.scorer)],
            result |-> Ok(<<>>)]

SongPlayer_play(self, clock) == [self EXCEPT !.transport = play(@, clock)]

SongPlayer_pause(self, clock) == [self EXCEPT !.transport = pause(@, clock)]

SongPlayer_stop(self) ==
  [self EXCEPT !.transport = stop(@),
               !.hit_detector = HitDetector_reset(@),
               !.scorer = Scorer_reset(@)]

SongPlayer_seek(self, beat, clock) ==
  [self EXCEPT !.transport = seek(@, beat, clock)]

SongPlayer_set_speed(self, speed, clock) ==
  [self EXCEPT !.transport = set_speed(@, speed, clock)]

\* An update_sustain that scores a sustain that has ended as a miss.
SongPlayer_update_sustain_scoring(self, pressed, clock) ==
  LET beat == get_current_beat(self.transport, clock)
      call == update_sustain(self.hit_detector, beat.result, pressed)
  IN [self |-> [self EXCEPT !.transport = beat.self,
                            !.hit_detector = call.self,
                            !.scorer = IF call.result THEN @
                                       ELSE register_hit(@, Miss("WrongFrets"))],
      result |-> call.result]

SongPlayer_update_sustain(self, pressed, clock) ==
  LET beat == get_current_beat(self.transport, clock)
      call == update_sustain(self.hit_detector, beat.result, pressed)
  IN [self |-> [self EXCEPT !.transport = beat.self, !.hit_detector = call.self],
      result |-> call.result]

\* The result is None (<<>>) without a chart, else Some(result).
SongPlayer_check_strum(self, pressed, clock) ==
  IF self.chart = <<>> THEN [self |-> self, result |-> <<>>]
  ELSE
    LET beat == get_current_beat(self.transport, clock)
        current_beat == beat.result
        chord_events == get_chord_events_in_range(self.chart[1],
                          current_beat - HIT_WINDOW, current_beat + HIT_WINDOW)
        call == check_strum(self.hit_detector, current_beat, pressed, chord_events)
    IN [self |-> [self EXCEPT !.transport = beat.self,
                              !.hit_detector = call.self,
                              !.scorer = register_hit(@, call.result)],
        result |-> <<call.result>>]

\* ------------------------------------------------------------------------
\* A SongPlayer loading charts and being played
\* ------------------------------------------------------------------------
MaxStrums == 3

ChartA ==
  SongChart(120, <<4, 4>>, 0, ChordMappings,
            <<Lane("chords", <<EvA, EvB>>), Lane("lead", <<EvC, EvG>>)>>)

ChartB ==
  SongChart(90, <<3, 4>>, 2, [chord \in {"C"} |-> <<"RED">>],
            <<Lane("chords", <<EvA>>)>>)

Json(doc) == [syntax |-> "ok", chart |-> doc]

JsonInputs ==
  {Json(ChartA), Json(ChartB),
   [syntax |-> "error"],
   Json([ChartB EXCEPT !.clock.bpm = 0]),
   Json([ChartB EXCEPT !.clock.time_sig = <<3, 0>>]),
   Json([ChartA EXCEPT !.lanes = <<Lane("chords", <<EvA, EvX>>)>>]),
   Json([ChartA EXCEPT !.lanes = <<Lane("chords", <<EvA>>),
                                   Lane("lead", <<ChordEvent(BeatUnit, 0, "G")>>)>>])}

PlayerSeekInputs == {BeatUnit}

PlayerSpeedInputs == {SpeedUnit \div 2}

PlayerPressedInputs == {<<"RED", "GREEN">>, <<"RED">>}

\* The SongPlayer's fields; transport is the Transport of the sections above.
Player ==
  [chart |-> chart, transport |-> transport, hit_detector |-> hit_detector,
   scorer |-> scorer]

Becomes(self) ==
  /\ chart' = self.chart
  /\ transport' = self.transport
  /\ hit_detector' = self.hit_detector
  /\ scorer' = self.scorer

Returns(call, argument, result) ==
  /\ song_call' = call
  /\ song_input' = argument
  /\ song_result' = result

\* anchor, stopped, t_call and t_result belong to the Transport's own
\* specification and are not kept up by the actions of the SongPlayer.
LoadChart ==
  \E json \in JsonInputs :
    LET call == load_chart(Player, json) IN
      /\ Becomes(call.self)
      /\ Returns("load_chart", json, call.result)
      /\ hit_log' = IF call.result.type = "Ok" THEN <<>> ELSE hit_log
      /\ held' = IF call.result.type = "Ok" THEN <<>> ELSE held
      /\ UNCHANGED <<now, t_call, t_result, anchor, stopped>>

SongPlay ==
  /\ Becomes(SongPlayer_play(Player, now))
  /\ Returns("play", <<>>, <<>>)
  /\ UNCHANGED <<hit_log, held, now, t_call, t_result, anchor, stopped>>

SongPause ==
  /\ Becomes(SongPlayer_pause(Player, now))
  /\ Returns("pause", <<>>, <<>>)
  /\ UNCHANGED <<hit_log, held, now, t_call, t_result, anchor, stopped>>

SongStop ==
  /\ Becomes(SongPlayer_stop(Player))
  /\ Returns("stop", <<>>, <<>>)
  /\ hit_log' = <<>>
  /\ held' = <<>>
  /\ UNCHANGED <<now, t_call, t_result, anchor, stopped>>

SongSeek ==
  \E beat \in PlayerSeekInputs :
    /\ Becomes(SongPlayer_seek(Player, beat, now))
    /\ Returns("seek", beat, <<>>)
    /\ UNCHANGED <<hit_log, held, now, t_call, t_result, anchor, stopped>>

SongSetSpeed ==
  \E speed \in PlayerSpeedInputs :
    /\ Becomes(SongPlayer_set_speed(Player, speed, now))
    /\ Returns("set_speed", speed, <<>>)
    /\ UNCHANGED <<hit_log, held, now, t_call, t_result, anchor, stopped>>

SongCheckStrum ==
  \E pressed \in PlayerPressedInputs :
    LET call == SongPlayer_check_strum(Player, pressed, now) IN
      /\ scorer.hits + scorer.misses < MaxStrums
      /\ Becomes(call.self)
      /\ Returns("check_strum", pressed, call.result)
      /\ hit_log' = IF call.result # <<>> /\ call.result[1].type = "Hit"
                      THEN Append(hit_log, [beat |-> call.result[1].event.beat,
                                            chord |-> call.result[1].event.chord])
                      ELSE hit_log
      /\ held' = IF /\ call.result # <<>>
                    /\ call.result[1].type = "Hit"
                    /\ call.result[1].event.is_sustain
                   THEN <<HitEventOf(call.result[1], flat_map(chart[1].lanes))>>
                   ELSE held
      /\ UNCHANGED <<now, t_call, t_result, anchor, stopped>>

SongUpdateSustain ==
  \E pressed \in PlayerPressedInputs :
    LET call == SongPlayer_update_sustain(Player, pressed, now) IN
      /\ Becomes(call.self)
      /\ Returns("update_sustain", pressed, call.result)
      /\ held' = IF call.result THEN held ELSE <<>>
      /\ UNCHANGED <<hit_log, now, t_call, t_result, anchor, stopped>>

\* Seeks to half a beat before and half a beat after the first chord event.
SongSeekEdge ==
  \E beat \in {EvA.beat - HIT_WINDOW, EvA.beat + HIT_WINDOW} :
    /\ Becomes(SongPlayer_seek(Player, beat, now))
    /\ Returns("seek", beat, <<>>)
    /\ UNCHANGED <<hit_log, held, now, t_call, t_result, anchor, stopped>>
\* ------------------------------------------------------------------------
\* Chord resolution (crates/mapping/src/harmonic.rs, presets.rs, resolution.rs)
\* ------------------------------------------------------------------------
FretButton == <<"Green", "Red", "Yellow", "Blue", "Orange">>

Note == <<"C", "Cs", "D", "Ds", "E", "F", "Fs", "G", "Gs", "A", "As", "B">>

Genre_all == <<"Punk", "Edm", "Rock", "Pop", "Folk", "Metal">>

default_key_root(genre) ==
  CASE genre = "Punk" -> "E"
    [] genre = "Edm" -> "A"
    [] genre = "Rock" -> "A"
    [] genre = "Pop" -> "C"
    [] genre = "Folk" -> "G"
    [] genre = "Metal" -> "E"

default_mode(genre) ==
  IF genre \in {"Punk", "Rock", "Pop", "Folk"} THEN "Major" ELSE "Minor"

\* Note::to_midi: ((octave + 4) * 12 + base as i8) as u8
Note_to_midi(note, octave) ==
  ((octave + 4) * 12 + ((CHOOSE i \in 1..12 : Note[i] = note) - 1)) % 256

ChordSpec_new(root, quality) ==
  [root |-> root, quality |-> quality, octave_offset |-> 0, voicing_tag |-> <<>>,
   fx_profile |-> <<>>]

FRET_HARMONIC_MAPPING ==
  << <<"Green", "I">>, <<"Red", "IV">>, <<"Yellow", "V">>, <<"Blue", "bVII">>,
     <<"Orange", "II">> >>

\* A GenrePreset; role_to_chord_quality is a function on the roles it holds.
\* The whammy and sustain defaults play no part in chord resolution.
GenrePreset(name, mode, key, role_to_chord_quality) ==
  [name |-> name, default_mode |-> mode, default_key |-> key,
   role_to_chord_quality |-> role_to_chord_quality]

Qualities(i, iv, v, bvii, sixth) ==
  [role \in {"I", "IV", "V", "bVII", sixth[1]} |->
     CASE role = "I" -> i
       [] role = "IV" -> iv
       [] role = "V" -> v
       [] role = "bVII" -> bvii
       [] OTHER -> sixth[2]]

create_default_preset(genre) ==
  GenrePreset(genre, default_mode(genre), default_key_root(genre),
    CASE genre = "Punk" -> Qualities("Power5", "Power5", "Power5", "Power5", <<"VI", "Power5">>)
      [] genre = "Edm" -> Qualities("Minor", "Minor", "Sus2", "Major", <<"VI", "Major">>)
      [] genre = "Rock" -> Qualities("Major", "Major", "Major", "Major", <<"II", "Minor">>)
      [] genre = "Pop" -> Qualities("Add9", "Add9", "Sus4", "Major", <<"VI", "Minor">>)
      [] genre = "Folk" -> Qualities("Major", "Major", "Sus4", "Major", <<"VI", "Minor">>)
      [] genre = "Metal" -> Qualities("Power5", "Power5", "Power5", "Power5", <<"II", "Power5">>))

\* The preset of resolution.rs's tests.
create_test_preset ==
  GenrePreset("Test", "Major", "E",
              Qualities("Power5", "Power5", "Power5", "Power5", <<"II", "Power5">>))

\* HashMap::insert
Insert(map, key, value) ==
  [k \in DOMAIN map \cup {key} |-> IF k = key THEN value ELSE map[k]]

EmptyMap == [k \in {} |-> <<>>]

ChordResolver_new == [presets |-> EmptyMap, cache |-> EmptyMap]

ChordResolver_load_preset(self, genre, preset) ==
  [self EXCEPT !.presets = Insert(self.presets, genre, preset)]

RECURSIVE load_presets_from(_, _, _)
\* The loop of PresetLoader::load_all_presets from the i-th genre on; files[genre]
\* is <<preset>> when the genre's file was read and parsed, <<>> otherwise.
load_presets_from(resolver, files, i) ==
  IF i > Len(Genre_all) THEN resolver
  ELSE load_presets_from(
         ChordResolver_load_preset(resolver, Genre_all[i],
           IF files[Genre_all[i]] # <<>> THEN files[Genre_all[i]][1]
           ELSE create_default_preset(Genre_all[i])),
         files, i + 1)

load_all_presets(files) == load_presets_from(ChordResolver_new, files, 1)

get_chord_root_for_role(role, key_root, mode) ==
  LET root_semitones == Note_to_midi(key_root, 0)
      interval == CASE role = "I" -> 0
                    [] role = "IV" -> 5
                    [] role = "V" -> 7
                    [] role = "bVII" -> 10
                    [] role = "II" -> 2
                    [] role = "VI" /\ mode = "Major" -> 9
                    [] role = "VI" /\ mode = "Minor" -> 8
  IN Note[((root_semitones + interval) % 12) + 1]

resolve_chord_for_role(role, key_root, mode, preset, row) ==
  IF role \notin DOMAIN preset.role_to_chord_quality THEN <<>>
  ELSE << [ChordSpec_new(get_chord_root_for_role(role, key_root, mode),
                         preset.role_to_chord_quality[role])
             EXCEPT !.octave_offset = IF row = "Solo" THEN 1 ELSE 0] >>

RECURSIVE apply_overrides_from(_, _, _, _)
apply_overrides_from(chord_map, overrides, row, i) ==
  IF i > Len(overrides) THEN chord_map
  ELSE apply_overrides_from(
         IF overrides[i].row = row
         THEN Insert(chord_map, overrides[i].fret_button, overrides[i].chord_spec)
         ELSE chord_map,
         overrides, row, i + 1)

apply_overrides(chord_map, overrides, row) == apply_overrides_from(chord_map, overrides, row, 1)

RECURSIVE resolve_roles_from(_, _, _, _, _, _)
\* The loop over FRET_HARMONIC_MAPPING in resolve_chord_map.
resolve_roles_from(chord_map, key_root, mode, preset, row, i) ==
  IF i > Len(FRET_HARMONIC_MAPPING) THEN chord_map
  ELSE LET chord_spec == resolve_chord_for_role(FRET_HARMONIC_MAPPING[i][2], key_root, mode,
                                                preset, row)
       IN resolve_roles_from(
            IF chord_spec # <<>>
            THEN Insert(chord_map, FRET_HARMONIC_MAPPING[i][1], chord_spec[1])
            ELSE chord_map,
            key_root, mode, preset, row, i + 1)

ResolutionKey(genre, key_root, mode, row) ==
  [genre |-> genre, key_root |-> key_root, mode |-> mode, row |-> row]

\* Variant: the table with the overrides applied is what gets cached.
resolve_chord_map_caching_overrides(self, genre, key_root, mode, row, overrides) ==
  IF genre \notin DOMAIN self.presets
  THEN [self |-> self, result |-> Err("No preset found for genre")]
  ELSE LET preset == self.presets[genre]
           key == IF key_root = <<>> THEN preset.default_key ELSE key_root[1]
           m == IF mode = <<>> THEN preset.default_mode ELSE mode[1]
           cache_key == ResolutionKey(genre, key, m, row)
       IN IF cache_key \in DOMAIN self.cache
          THEN [self |-> self,
                result |-> Ok(apply_overrides(self.cache[cache_key], overrides, row))]
          ELSE LET chord_map == apply_overrides(
                                  resolve_roles_from(EmptyMap, key, m, preset, row, 1),
                                  overrides, row)
               IN [self |-> [self EXCEPT !.cache = Insert(self.cache, cache_key, chord_map)],
                   result |-> Ok(chord_map)]

\* key_root and mode are Options: <<>> or <<value>>.
resolve_chord_map(self, genre, key_root, mode, row, overrides) ==
  IF genre \notin DOMAIN self.presets
  THEN [self |-> self, result |-> Err("No preset found for genre")]
  ELSE LET preset == self.presets[genre]
           key == IF key_root = <<>> THEN preset.default_key ELSE key_root[1]
           m == IF mode = <<>> THEN preset.default_mode ELSE mode[1]
           cache_key == ResolutionKey(genre, key, m, row)
       IN IF cache_key \in DOMAIN self.cache
          THEN [self |-> self,
                result |-> Ok(apply_overrides(self.cache[cache_key], overrides, row))]
          ELSE LET chord_map == resolve_roles_from(EmptyMap, key, m, preset, row, 1)
               IN [self |-> [self EXCEPT !.cache = Insert(self.cache, cache_key, chord_map)],
                   result |-> Ok(apply_overrides(chord_map, overrides, row))]

clear_cache(self) == [self EXCEPT !.cache = EmptyMap]

\* --- the resolver as a state machine -------------------------------------
VARIABLES
  resolver,   \* the ChordResolver struct
  r_call,     \* the last call on it with its arguments, whether the cache
              \* answered it and whether the call before it passed overrides
              \* for the same row
  r_result,   \* what that call returned
  cached_for  \* the genres whose preset was replaced while the cache held a
              \* table computed from the replaced preset

resolver_vars == <<resolver, r_call, r_result, cached_for>>

MaxCached == 1

NoFiles == [genre \in Range(Genre_all) |-> <<>>]

\* Which chord-map files PresetLoader found: none, or one for Punk.
FileInputs == {NoFiles, [NoFiles EXCEPT !["Punk"] = <<create_test_preset>>]}

KeyInputs == {<<>>, <<"E">>}

ModeInputs == {<<>>, <<"Minor">>}

FretRowInputs == {"Main", "Solo"}

PatternChordOverride(fret_button, row, chord_spec) ==
  [fret_button |-> fret_button, row |-> row, chord_spec |-> chord_spec]

OverrideInputs ==
  {<<>>, <<PatternChordOverride("Green", "Main", ChordSpec_new("A", "Minor"))>>}

LoadInputs == {<<"Punk", create_test_preset>>, <<"Punk", create_default_preset("Punk")>>}

ResolverIdle ==
  /\ resolver = ChordResolver_new
  /\ r_call = [name |-> "new"]
  /\ r_result = <<>>
  /\ cached_for = {}

ResolverInit ==
  /\ \E files \in FileInputs : resolver = load_all_presets(files)
  /\ r_call = [name |-> "load_all_presets"]
  /\ r_result = <<>>
  /\ cached_for = {}

LoadPreset ==
  \E load \in LoadInputs :
    /\ resolver' = ChordResolver_load_preset(resolver, load[1], load[2])
    /\ r_call' = [name |-> "load_preset", genre |-> load[1]]
    /\ r_result' = <<>>
    /\ cached_for' =
         IF /\ load[1] \in DOMAIN resolver.presets
            /\ resolver.presets[load[1]] # load[2]
            /\ \E k \in DOMAIN resolver.cache : k.genre = load[1]
         THEN cached_for \cup {load[1]}
         ELSE cached_for

ResolveChordMap ==
  \E genre \in Range(Genre_all), key_root \in KeyInputs, mode \in ModeInputs,
     row \in FretRowInputs, overrides \in OverrideInputs :
    LET r == resolve_chord_map(resolver, genre, key_root, mode, row, overrides)
    IN /\ Cardinality(DOMAIN r.self.cache) <= MaxCached
       /\ resolver' = r.self
       /\ r_call' = [name |-> "resolve_chord_map", genre |-> genre, key_root |-> key_root,
                     mode |-> mode, row |-> row, overrides |-> overrides,
                     cached |-> r.self = resolver,
                     after_overrides |-> /\ r_call.name = "resolve_chord_map"
                                         /\ r_call.overrides # <<>>
                                         /\ r_call.row = row]
       /\ r_result' = r.result
       /\ UNCHANGED cached_for

ClearCache ==
  /\ resolver' = clear_cache(resolver)
  /\ r_call' = [name |-> "clear_cache"]
  /\ r_result' = <<>>
  /\ cached_for' = {}

\* ------------------------------------------------------------------------
\* crates/controller/src/high_performance.rs: PerformanceController
\* ------------------------------------------------------------------------
\* The gamepads that can be plugged in. Gamepad 1 is a guitar whose strum
\* bar is the pair of right triggers; gamepad 2 has no such pair and strums
\* with the d-pad.
GamepadIds == {1, 2}

TriggerPairGamepads == {1}

\* The buttons of a gamepad that the model follows (South is the green fret).
GamepadButtons(id) ==
  IF id \in TriggerPairGamepads
  THEN {"South", "RightTrigger", "RightTrigger2", "DPadUp", "DPadDown"}
  ELSE {"South", "DPadUp", "DPadDown"}

VARIABLES
  devices,        \* the hardware: which gamepads are plugged in and which of
                  \* their buttons are down
  gilrs,          \* the driver handle: its queue of undelivered events, its
                  \* table of connected gamepads (brought up to date as
                  \* next_event hands the events out) and who holds its mutex
  active_gamepad, \* PerformanceController.active_gamepad: <<>> or <<id>>
  atomic_state,   \* the AtomicControllerState the snapshots are read from;
                  \* last_update counts the polling thread's updates modulo 2
  audio_callback, \* whether set_audio_callback has installed a callback
  should_stop,    \* PerformanceController.should_stop
  polling_thread, \* PerformanceController.polling_thread: <<>> or <<"handle">>
  thread,         \* the spawned polling thread: where it is in its loop, the
                  \* callback it was given, its previous-cycle copies of the
                  \* frets and the strum; and, of its history, whether it
                  \* has polled a gamepad and its last fret callback
  stop_polling,   \* where a stop_polling call is: "idle", or "join" while it
                  \* waits for the thread
  fired,          \* the callbacks fired by the latest polling cycle
  c_call          \* the last step of the controller or of its environment

controller_vars ==
  <<devices, gilrs, active_gamepad, atomic_state, audio_callback, should_stop,
    polling_thread, thread, stop_polling, fired, c_call>>

MaxEvents == 2

AtomicControllerState_new ==
  [fret_green |-> FALSE, strum_up |-> FALSE, strum_down |-> FALSE, dpad_up |-> FALSE,
   dpad_down |-> FALSE, connected |-> FALSE, last_update |-> 0]

NoThread ==
  [pc |-> "none", callback |-> FALSE, prev_frets |-> <<FALSE>>, prev_strum |-> <<FALSE, FALSE>>,
   polled |-> FALSE, last_fret |-> "none"]

\* PerformanceController::new with no gamepad plugged in.
ControllerIdle ==
  /\ devices = [plugged |-> {}, down |-> [id \in GamepadIds |-> {}]]
  /\ gilrs = [pending |-> <<>>, gamepads |-> {}, holder |-> "none"]
  /\ active_gamepad = <<>>
  /\ atomic_state = AtomicControllerState_new
  /\ audio_callback = FALSE
  /\ should_stop = FALSE
  /\ polling_thread = <<>>
  /\ thread = NoThread
  /\ stop_polling = "idle"
  /\ fired = <<>>
  /\ c_call = "new"

\* --- the environment -----------------------------------------------------
GamepadEvent(type, id) == [type |-> type, id |-> id]

Plug ==
  \E id \in GamepadIds \ devices.plugged :
    /\ Len(gilrs.pending) < MaxEvents
    /\ devices' = [devices EXCEPT !.plugged = @ \cup {id}]
    /\ gilrs' = [gilrs EXCEPT !.pending = Append(@, GamepadEvent("Connected", id))]
    /\ c_call' = "plug"
    /\ UNCHANGED <<active_gamepad, atomic_state, audio_callback, should_stop, polling_thread,
                   thread, stop_polling, fired>>

Unplug ==
  \E id \in devices.plugged :
    /\ Len(gilrs.pending) < MaxEvents
    /\ devices' = [devices EXCEPT !.plugged = @ \ {id}, !.down[id] = {}]
    /\ gilrs' = [gilrs EXCEPT !.pending = Append(@, GamepadEvent("Disconnected", id))]
    /\ c_call' = "unplug"
    /\ UNCHANGED <<active_gamepad, atomic_state, audio_callback, should_stop, polling_thread,
                   thread, stop_polling, fired>>

\* A button of a plugged-in gamepad goes down or comes up.
Toggle(buttons) ==
  \E id \in devices.plugged, button \in buttons :
    /\ button \in GamepadButtons(id)
    /\ devices' = [devices EXCEPT !.down[id] =
                     IF button \in @ THEN @ \ {button} ELSE @ \cup {button}]
    /\ c_call' = "button"
    /\ UNCHANGED <<gilrs, active_gamepad, atomic_state, audio_callback, should_stop,
                   polling_thread, thread, stop_polling, fired>>

PressStrum == Toggle({"RightTrigger", "RightTrigger2", "DPadUp", "DPadDown"})

PressFret == Toggle({"South"})

\* The upward strum of either kind of gamepad.
PressStrumUp == Toggle({"RightTrigger", "DPadUp"})

\* --- the polling loop ------------------------------------------------------
\* What gilrs.next_event does to the driver's table of connected gamepads.
gilrs_next_event(gamepads, event) ==
  IF event.type = "Connected" THEN gamepads \cup {event.id}
  ELSE gamepads \ {event.id}

\* The match on a connection event in the polling loop (180-196), on the
\* pair <<active_gamepad, state.connected>>.
on_connection_event(active, event) ==
  IF event.type = "Connected" THEN [gamepad |-> <<event.id>>, connected |-> TRUE]
  ELSE IF active.gamepad = <<event.id>> THEN [gamepad |-> <<>>, connected |-> FALSE]
  ELSE active

RECURSIVE drain_events(_, _)
\* while let Some(event) = gilrs.next_event() { .. } over the queued events.
drain_events(active, pending) ==
  IF pending = <<>> THEN active
  ELSE drain_events(on_connection_event(active, Head(pending)), Tail(pending))

RECURSIVE drained(_, _)
drained(gamepads, pending) ==
  IF pending = <<>> THEN gamepads
  ELSE drained(gilrs_next_event(gamepads, Head(pending)), Tail(pending))

\* The strum and d-pad readings of a cycle (217-242) from the buttons that
\* are down on the active gamepad.
read_strum(down) ==
  LET has_strum_bar == "RightTrigger" \in down \/ "RightTrigger2" \in down
  IN [strum |-> IF has_strum_bar
                THEN <<"RightTrigger" \in down, "RightTrigger2" \in down>>
                ELSE <<"DPadUp" \in down, "DPadDown" \in down>>,
      dpad |-> IF has_strum_bar
               THEN <<"DPadUp" \in down, "DPadDown" \in down>>
               ELSE <<FALSE, FALSE>>]

\* Variant: the callbacks follow the level of the inputs, not their edges.
edge_callbacks_on_level(frets, prev_frets, strum, prev_strum) ==
  (IF frets[1] THEN <<"on_fret_press">> ELSE <<"on_fret_release">>)
  \o (IF strum[1] THEN <<"on_strum_up">> ELSE <<>>)
  \o (IF strum[2] THEN <<"on_strum_down">> ELSE <<>>)

\* The callbacks of a cycle (271-290), in the order they are made.
edge_callbacks(frets, prev_frets, strum, prev_strum) ==
  (IF frets[1] /\ ~prev_frets[1] THEN <<"on_fret_press">>
   ELSE IF ~frets[1] /\ prev_frets[1] THEN <<"on_fret_release">>
   ELSE <<>>)
  \o (IF strum[1] /\ ~prev_strum[1] THEN <<"on_strum_up">> ELSE <<>>)
  \o (IF strum[2] /\ ~prev_strum[2] THEN <<"on_strum_down">> ELSE <<>>)

\* The last callback among names in the callbacks of a cycle; last when
\* the cycle made none of them.
last_of(callbacks, names, last) ==
  LET found == {i \in 1..Len(callbacks) : callbacks[i] \in names}
  IN IF found = {} THEN last
     ELSE callbacks[CHOOSE i \in found : \A j \in found : j <= i]

\* Variant: the handle is dropped without waiting for the thread.
joined_detached(t) == TRUE

\* thread.join() has returned.
joined(t) == t.pc = "exited"

StartPolling ==
  /\ stop_polling = "idle"
  /\ c_call' = "start_polling"
  /\ IF polling_thread # <<>>
     THEN UNCHANGED <<should_stop, polling_thread, thread>>
     ELSE /\ should_stop' = FALSE
          /\ thread' = [NoThread EXCEPT !.pc = "while", !.callback = audio_callback]
          /\ polling_thread' = <<"handle">>
  /\ UNCHANGED <<devices, gilrs, active_gamepad, atomic_state, audio_callback, stop_polling,
                 fired>>

SetAudioCallback ==
  /\ stop_polling = "idle"
  /\ audio_callback' = TRUE
  /\ c_call' = "set_audio_callback"
  /\ UNCHANGED <<devices, gilrs, active_gamepad, atomic_state, should_stop, polling_thread,
                 thread, stop_polling, fired>>

\* while !should_stop.load(Relaxed)
PollWhile ==
  /\ thread.pc = "while"
  /\ thread' = [thread EXCEPT !.pc = IF should_stop THEN "exited" ELSE "try_lock"]
  /\ c_call' = "poll_while"
  /\ UNCHANGED <<devices, gilrs, active_gamepad, atomic_state, audio_callback, should_stop,
                 polling_thread, stop_polling, fired>>

\* Variant: the thread waits for the driver handle, gilrs.lock().
PollBusy_waiting ==
  /\ thread.pc = "try_lock"
  /\ gilrs.holder # "none"
  /\ FALSE
  /\ UNCHANGED controller_vars

\* gilrs.try_lock() failed: sleep 0.1 ms and continue.
PollBusy ==
  /\ thread.pc = "try_lock"
  /\ gilrs.holder # "none"
  /\ thread' = [thread EXCEPT !.pc = "while"]
  /\ c_call' = "poll_busy"
  /\ UNCHANGED <<devices, gilrs, active_gamepad, atomic_state, audio_callback, should_stop,
                 polling_thread, stop_polling, fired>>

\* One cycle with the driver handle: drain the events, poll the active
\* gamepad, store the readings, fire the callbacks, let go of the handle and
\* sleep to the end of the tick.
PollCycle ==
  /\ thread.pc = "try_lock"
  /\ gilrs.holder = "none"
  /\ LET active == drain_events([gamepad |-> active_gamepad,
                                 connected |-> atomic_state.connected], gilrs.pending)
         down == IF active.gamepad = <<>> THEN {} ELSE devices.down[active.gamepad[1]]
         frets == <<"South" \in down>>
         reading == read_strum(down)
     IN /\ gilrs' = [gilrs EXCEPT !.pending = <<>>, !.gamepads = drained(@, gilrs.pending)]
        /\ active_gamepad' = active.gamepad
        /\ IF active.gamepad = <<>>
           THEN /\ atomic_state' = [atomic_state EXCEPT !.connected = active.connected]
                /\ thread' = [thread EXCEPT !.pc = "while"]
                /\ fired' = <<>>
           ELSE /\ atomic_state' =
                     [fret_green |-> frets[1],
                      strum_up |-> reading.strum[1], strum_down |-> reading.strum[2],
                      dpad_up |-> reading.dpad[1], dpad_down |-> reading.dpad[2],
                      connected |-> active.connected,
                      last_update |-> (atomic_state.last_update + 1) % 2]
                /\ fired' = IF thread.callback
                            THEN edge_callbacks(frets, thread.prev_frets, reading.strum,
                                                thread.prev_strum)
                            ELSE <<>>
                /\ thread' = [thread EXCEPT
                                !.pc = "while", !.prev_frets = frets,
                                !.prev_strum = reading.strum, !.polled = TRUE,
                                !.last_fret = last_of(fired', {"on_fret_press", "on_fret_release"}, @)]
  /\ c_call' = "poll_cycle"
  /\ UNCHANGED <<devices, audio_callback, should_stop, polling_thread, stop_polling>>

\* stop_polling up to thread.join()
StopRequest ==
  /\ stop_polling = "idle"
  /\ should_stop' = TRUE
  /\ IF polling_thread # <<>>
     THEN polling_thread' = <<>> /\ stop_polling' = "join"
     ELSE UNCHANGED <<polling_thread, stop_polling>>
  /\ c_call' = "stop_polling"
  /\ UNCHANGED <<devices, gilrs, active_gamepad, atomic_state, audio_callback, thread, fired>>

\* thread.join() returns and with it stop_polling
StopJoin ==
  /\ stop_polling = "join"
  /\ joined(thread)
  /\ stop_polling' = "idle"
  /\ c_call' = "stop_polling_returned"
  /\ UNCHANGED <<devices, gilrs, active_gamepad, atomic_state, audio_callback, should_stop,
                 polling_thread, thread, fired>>

\* process_events (351-379) once it holds the driver handle; with the handle
\* busy it returns Ok(false) and changes nothing.
ScanLock ==
  /\ gilrs.holder = "none"
  /\ gilrs' = [gilrs EXCEPT !.holder = "process_events"]
  /\ c_call' = "scan_lock"
  /\ UNCHANGED <<devices, active_gamepad, atomic_state, audio_callback, should_stop,
                 polling_thread, thread, stop_polling, fired>>

\* The index of the first Connected event of the queue, 0 when it has none.
first_connected(pending) ==
  LET found == {i \in 1..Len(pending) : pending[i].type = "Connected"}
  IN IF found = {} THEN 0 ELSE CHOOSE i \in found : \A j \in found : i <= j

\* The body of process_events: the events up to the first Connected one are
\* taken off the queue; a Connected one, or else the first gamepad of the
\* driver's table, becomes the active gamepad.
process_events(pending, gamepads, active) ==
  LET k == first_connected(pending)
      taken == IF k = 0 THEN pending ELSE SubSeq(pending, 1, k)
      table == drained(gamepads, taken)
  IN [pending |-> IF k = 0 THEN <<>> ELSE SubSeq(pending, k + 1, Len(pending)),
      gamepads |-> table,
      active |-> IF k # 0 THEN [gamepad |-> <<pending[k].id>>, connected |-> TRUE]
                 ELSE IF table # {}
                 THEN [gamepad |-> <<CHOOSE id \in table : \A other \in table : id <= other>>,
                       connected |-> TRUE]
                 ELSE active,
      result |-> k # 0 \/ table # {}]

ScanEvents ==
  /\ gilrs.holder = "process_events"
  /\ LET r == process_events(gilrs.pending, gilrs.gamepads,
                             [gamepad |-> active_gamepad,
                              connected |-> atomic_state.connected])
     IN /\ gilrs' = [pending |-> r.pending, gamepads |-> r.gamepads, holder |-> "none"]
        /\ active_gamepad' = r.active.gamepad
        /\ atomic_state' = [atomic_state EXCEPT !.connected = r.active.connected]
  /\ c_call' = "process_events"
  /\ UNCHANGED <<devices, audio_callback, should_stop, polling_thread, thread, stop_polling,
                 fired>>

\* ------------------------------------------------------------------------
\* apps/desktop/src-tauri/src/state.rs: from controller snapshots to the
\* synthesizer (process_controller_input, send_audio_event, the callback)
\* ------------------------------------------------------------------------
\* Threads of the command pool that run process_controller_input.
AppThreads == {1, 2}

VARIABLES
  app,       \* for each thread where it is in process_controller_input
             \* ("idle" outside of it, "send" in its loop over the events)
             \* and the events it has still to send
  order,     \* the threads that have events to send, in the order in which
             \* the Mapper produced their batches
  app_call   \* the last step of a thread: the operation, the thread and, for
             \* a send, the event and the result

app_vars == <<app, order, app_call>>

AppIdle ==
  /\ app = [t \in AppThreads |-> [pc |-> "idle", batch |-> <<>>]]
  /\ order = <<>>
  /\ app_call = [op |-> "new", thread |-> 0]

\* Snapshots of a guitar played with the whammy bar at rest: nothing held,
\* and a strum with no fret held.
PlayedStates ==
  {NoInput, [buttons |-> {"StrumDown"}, whammy |-> 0]}

\* Snapshots of the whammy bar at rest and pushed half way either way, with
\* and without a strum.
BentStates ==
  [buttons : {{}, {"StrumDown"}}, whammy : {0, -50, 50}]

\* process_controller_input up to its loop: the snapshot goes through
\* Mapper::process under the mapper's lock.
AppProcess(t, states) ==
  /\ app[t].pc = "idle"
  /\ \E state \in states : ProcessOf(state)
  /\ app' = [app EXCEPT ![t] = [pc |-> IF events' = <<>> THEN "idle" ELSE "send",
                                batch |-> events']]
  /\ order' = IF events' = <<>> THEN order ELSE Append(order, t)
  /\ app_call' = [op |-> "process", thread |-> t]

\* Variant: a rejected event is skipped and the loop goes on.
send_audio_events_skipping(batch, result) ==
  IF Len(batch) = 1 THEN [pc |-> "idle", batch |-> <<>>]
  ELSE [pc |-> "send", batch |-> Tail(batch)]

\* for event in events { send_audio_event(event)?; } after one event: the
\* loop goes on with the next one, or returns at the end and on an error.
send_audio_events(batch, result) ==
  IF result = "Err" \/ Len(batch) = 1 THEN [pc |-> "idle", batch |-> <<>>]
  ELSE [pc |-> "send", batch |-> Tail(batch)]

\* One send_audio_event of the loop, under the lock of the audio output.
AppSend(t) ==
  /\ app[t].pc = "send"
  /\ LET sent == send_event(ring, Head(app[t].batch))
         next == send_audio_events(app[t].batch, sent.result)
     IN /\ ring' = sent.queue
        /\ a_call' = Called("send_event", sent.result)
        /\ rejected' = (rejected \/ sent.result = "Err")
        /\ app' = [app EXCEPT ![t] = next]
        /\ order' = IF next.pc = "idle" THEN SelectSeq(order, LAMBDA o : o # t) ELSE order
        /\ app_call' = [op |-> "send", thread |-> t, event |-> Head(app[t].batch),
                        result |-> sent.result]
  /\ UNCHANGED <<output, channel, engine, error_flags, created, next_event, callback,
                 reported, cb_done>>

\* FallbackSynth::set_pitch_bend; the bend is kept as the event's amount,
\* 8192 of which are two semitones.
set_pitch_bend(self, amount) == [self EXCEPT !.pitch_bend = amount]

\* AudioEngine::handle_event on the fallback synthesizer.
engine_handle_event(self, event) ==
  CASE event.type = "NoteOn" -> note_on(self, event.note, event.velocity)
    [] event.type = "NoteOff" -> note_off(self, event.note)
    [] event.type = "PitchBend" -> set_pitch_bend(self, event.amount)
    [] event.type = "PanicAllNotesOff" -> all_notes_off(self)
    [] OTHER -> self

RECURSIVE engine_handle_events(_, _, _, _)
\* The callback's loop over the events first..last of the queue, on the
\* synthesizer of the engine; the first half of the events is handled
\* (the comparison has it evaluated) before the second half is looked at.
engine_handle_events(self, queue, first, last) ==
  IF first > last THEN self
  ELSE IF first = last THEN engine_handle_event(self, queue[first])
  ELSE LET half == (first + last) \div 2
           handled == engine_handle_events(self, queue, first, half)
       IN IF handled = handled
          THEN engine_handle_events(handled, queue, half + 1, last)
          ELSE self

RECURSIVE handle_events(_, _, _, _)
\* The same loop on the engine of the audio model.
handle_events(eng, queue, first, last) ==
  IF first > last THEN eng
  ELSE IF first = last THEN handle_event(eng, queue[first])
  ELSE LET half == (first + last) \div 2
           handled == handle_events(eng, queue, first, half)
       IN IF handled = handled
          THEN handle_events(handled, queue, half + 1, last)
          ELSE eng

\* The buffer size of the stream, the same in all its callbacks.
StreamFrames == CHOOSE frames \in BufferFrames : \A other \in BufferFrames : other <= frames

\* A whole data callback between two process_controller_input calls: the
\* commands, the events waiting in the queue, the rendering of the buffer.
\* The counters of the synthesizer's own runs are left alone.
EngineCallback ==
  /\ callback = "idle"
  /\ \A t \in AppThreads : app[t].pc = "idle"
  /\ engine' = handle_events(handle_commands(engine, channel), ring, 1, Len(ring))
  /\ synth' = render(engine_handle_events(synth, ring, 1, Len(ring)), StreamFrames)
  /\ s_op' = IF ring = <<>> THEN s_op ELSE ring[Len(ring)].type
  /\ s_note' = IF ring = <<>> THEN s_note ELSE ring[Len(ring)].note
  /\ channel' = <<>>
  /\ ring' = <<>>
  /\ cb_done' = CallbackDone(Len(channel), ring # <<>>, commands_effects(channel))
  /\ UNCHANGED <<output, error_flags, created, next_event, callback, a_call, reported,
                 rejected, n_on, n_rel>>

\* process_controller_input called while only a few events wait for the
\* callback.
AppProcessPlayed ==
  /\ Len(ring) < MaxPending
  /\ \E t \in AppThreads : AppProcess(t, PlayedStates)

AppSendAny == \E t \in AppThreads : AppSend(t)

\* The events Mapper::process gives for the whammy bar held deflected.
BendEvents == whammy_events([buttons |-> {}, whammy |-> -50])

\* The state after RingCapacity - 1 calls of process_controller_input with
\* the whammy bar held deflected while the audio device ran no callback: the
\* event queue is one pitch bend short of full.
AppBacklog ==
  /\ mapper = Mapper_new("Rock")
  /\ events = BendEvents
  /\ m_op = "process"
  /\ input = [buttons |-> {}, whammy |-> -50]
  /\ sounding = {}
  /\ trigger_frets = <<>>
  /\ before = Entry
  /\ app = [t \in AppThreads |-> [pc |-> "idle", batch |-> <<>>]]
  /\ order = <<>>
  /\ app_call = [op |-> "send", thread |-> 1, event |-> BendEvents[1], result |-> "Ok"]
  /\ output = create_with_device(1)
  /\ ring = [i \in 1..(RingCapacity - 1) |-> BendEvents[1]]
  /\ channel = <<>>
  /\ engine = AudioEngine_new
  /\ error_flags = [id \in 1..MaxStreams |-> FALSE]
  /\ created = 1
  /\ next_event = 1
  /\ callback = "idle"
  /\ a_call = Called("send_event", "Ok")
  /\ reported = FALSE
  /\ rejected = FALSE
  /\ cb_done = CallbackDone(0, FALSE, {})

\* The whammy bar held while no callback runs.
AppBendAlone == AppProcess(1, {[buttons |-> {}, whammy |-> -50]})

\* One thread playing the guitar while few events wait for the callback, or
\* while the event queue is full or one event short of it.
AppProcessAlone ==
  /\ Len(ring) < MaxPending \/ Len(ring) >= RingCapacity - 1
  /\ AppProcess(1, PlayedStates)

AppSendAlone == AppSend(1)

\* One thread playing the guitar and its whammy bar while few events wait.
AppWhammy ==
  /\ Len(ring) < MaxPending
  /\ AppProcess(1, BentStates)


\* ---------------------------------------------------------------------------
\* The mutexes of the controller: who takes which, and in what order
\* (controller/src/high_performance.rs, raw_diagnostics.rs, mapping_wizard.rs,
\* apps/desktop/src-tauri/src/commands.rs)
\* ---------------------------------------------------------------------------

\* The polling thread and two threads of the command pool.
CommandThreads == {"command1", "command2"}
LockThreads == {"polling"} \cup CommandThreads

\* AppState.controller, PerformanceController.gilrs and .active_gamepad,
\* RawDiagnostics.enabled and .events, MappingWizard.state.
Mutexes == {"controller", "gilrs", "active_gamepad", "enabled", "events", "wizard"}

VARIABLES
  mutex,     \* the thread that holds each mutex, or "none"
  steps,     \* what each thread has still to do in the call (or the polling
             \* cycle) it is in: a sequence of lock operations
  poller     \* should_stop, and whether the polling thread has left its loop

lock_vars == <<mutex, steps, poller>>

LocksIdle ==
  /\ mutex = [m \in Mutexes |-> "none"]
  /\ steps = [t \in LockThreads |-> <<>>]
  /\ poller = [should_stop |-> FALSE, exited |-> FALSE]

Lock(m) == [op |-> "lock", mutex |-> m]
TryLock(m) == [op |-> "try_lock", mutex |-> m]
Unlock(m) == [op |-> "unlock", mutex |-> m]
Locked(m) == <<Lock(m), Unlock(m)>>

\* The kinds of driver event the polling loop tells apart, and whether raw
\* diagnostics are enabled when one is recorded.
EventKinds == {"Connected", "Disconnected", "Other"}

\* RawDiagnostics::record_event: is_enabled() takes and drops the flag's
\* mutex; the buffer's mutex is taken only when diagnostics are enabled.
raw_diagnostics_record_event(is_enabled) ==
  Locked("enabled") \o (IF is_enabled THEN Locked("events") ELSE <<>>)

\* MappingWizard::record_event holds the wizard's state throughout.
mapping_wizard_record_event == Locked("wizard")

\* The body of the polling loop for one cycle with the driver events given
\* (their kinds and, for each, whether diagnostics were enabled).
RECURSIVE polling_events(_)
polling_events(evs) ==
  IF evs = <<>> THEN <<>>
  ELSE raw_diagnostics_record_event(Head(evs).is_enabled)
       \o mapping_wizard_record_event
       \o (IF Head(evs).kind \in {"Connected", "Disconnected"} THEN Locked("active_gamepad") ELSE <<>>)
       \o polling_events(Tail(evs))

polling_cycle(evs) ==
  <<TryLock("gilrs")>> \o polling_events(evs) \o Locked("active_gamepad") \o <<Unlock("gilrs")>>

\* PerformanceController::process_events: the handle by try_lock, the active
\* slot when a gamepad is found.
process_events_locks(found) ==
  <<TryLock("gilrs")>> \o (IF found THEN Locked("active_gamepad") ELSE <<>>) \o <<Unlock("gilrs")>>

\* Variant: get_debug_info reads the driver, waiting for its handle with
\* the active slot held.
get_debug_info_taking_handle ==
  <<Lock("active_gamepad"), Lock("gilrs"), Unlock("gilrs"), Unlock("active_gamepad")>>

\* PerformanceController::get_debug_info holds the active slot; the rest are
\* atomic loads.
get_debug_info_locks == Locked("active_gamepad")

\* PerformanceController::stop_polling.
stop_polling_locks == <<[op |-> "store_stop", mutex |-> "none"], [op |-> "join", mutex |-> "none"]>>

\* What the commands do to the controller, each under AppState.controller:
\* process_events, get_state (atomic loads only), get_debug_info, the
\* diagnostics commands, the mapping-wizard commands, stop_polling.
ControllerCalls ==
  {process_events_locks(found) : found \in BOOLEAN}
    \cup {<<>>, get_debug_info_locks, Locked("enabled"), Locked("events"),
          Locked("enabled") \o Locked("events"), Locked("wizard"), stop_polling_locks}

command(call) == <<Lock("controller")>> \o call \o <<Unlock("controller")>>

\* The steps left after a failed try_lock: those behind the unlock that the
\* guard's scope ends with.
RECURSIVE after_scope(_, _)
after_scope(todo, m) ==
  IF todo = <<>> THEN <<>>
  ELSE IF Head(todo) = Unlock(m) THEN Tail(todo)
  ELSE after_scope(Tail(todo), m)

AtStep(t, op) == steps[t] # <<>> /\ Head(steps[t]).op = op

\* The loop test of the polling thread: leave when should_stop is set, else
\* run one more cycle.
PollingLoop ==
  /\ steps["polling"] = <<>>
  /\ ~poller.exited
  /\ IF poller.should_stop
     THEN poller' = [poller EXCEPT !.exited = TRUE] /\ steps' = steps
     ELSE /\ \E n \in 0..MaxEvents : \E evs \in [1..n -> [kind : EventKinds, is_enabled : BOOLEAN]] :
               steps' = [steps EXCEPT !["polling"] = polling_cycle(evs)]
          /\ poller' = poller
  /\ mutex' = mutex

\* A command arrives on a thread of the pool.
CommandCall ==
  \E t \in CommandThreads : \E call \in ControllerCalls :
    /\ steps[t] = <<>>
    /\ steps' = [steps EXCEPT ![t] = command(call)]
    /\ UNCHANGED <<mutex, poller>>

\* Mutex::lock: blocks while the mutex is held.
Acquire ==
  \E t \in LockThreads :
    /\ AtStep(t, "lock")
    /\ mutex[Head(steps[t]).mutex] = "none"
    /\ mutex' = [mutex EXCEPT ![Head(steps[t]).mutex] = t]
    /\ steps' = [steps EXCEPT ![t] = Tail(@)]
    /\ poller' = poller

\* Mutex::try_lock: on failure the polling loop continues with its next
\* iteration and process_events returns.
TryAcquire ==
  \E t \in LockThreads :
    /\ AtStep(t, "try_lock")
    /\ LET m == Head(steps[t]).mutex
       IN IF mutex[m] = "none"
          THEN /\ mutex' = [mutex EXCEPT ![m] = t]
               /\ steps' = [steps EXCEPT ![t] = Tail(@)]
          ELSE /\ mutex' = mutex
               /\ steps' = [steps EXCEPT ![t] = after_scope(@, m)]
    /\ poller' = poller

\* A guard goes out of scope.
Release ==
  \E t \in LockThreads :
    /\ AtStep(t, "unlock")
    /\ mutex' = [mutex EXCEPT ![Head(steps[t]).mutex] = "none"]
    /\ steps' = [steps EXCEPT ![t] = Tail(@)]
    /\ poller' = poller

\* stop_polling: the store to should_stop, then the join.
StoreStop ==
  \E t \in CommandThreads :
    /\ AtStep(t, "store_stop")
    /\ poller' = [poller EXCEPT !.should_stop = TRUE]
    /\ steps' = [steps EXCEPT ![t] = Tail(@)]
    /\ mutex' = mutex

Join ==
  \E t \in CommandThreads :
    /\ AtStep(t, "join")
    /\ poller.exited
    /\ steps' = [steps EXCEPT ![t] = Tail(@)]
    /\ UNCHANGED <<mutex, poller>>
\* ------------------------------------------------------------------------
\* Specifications: one per component, the other components standing still
\* ------------------------------------------------------------------------
vars == <<mapper_vars, synth_vars, audio_vars, transport_vars, song_vars, resolver_vars, controller_vars, app_vars,
          lock_vars>>

MapperIdle ==
  /\ mapper = Mapper_new("Rock")
  /\ events = <<>>
  /\ m_op = "new"
  /\ input = NoInput
  /\ sounding = {}
  /\ trigger_frets = <<>>
  /\ before = Entry

InitMapper == MapperInit /\ SynthInit /\ AudioInit /\ TransportIdle /\ SongIdle /\ ResolverIdle /\ ControllerIdle
  /\ AppIdle /\ LocksIdle

NextMapper ==
  \/ Process /\
       UNCHANGED <<synth_vars, audio_vars, transport_vars, song_vars, resolver_vars,
                   controller_vars, app_vars, lock_vars>>
  \/ Panic /\
       UNCHANGED <<synth_vars, audio_vars, transport_vars, song_vars, resolver_vars,
                   controller_vars, app_vars, lock_vars>>
  \/ NextPattern /\
       UNCHANGED <<synth_vars, audio_vars, transport_vars, song_vars, resolver_vars,
                   controller_vars, app_vars, lock_vars>>
  \/ PrevPattern /\
       UNCHANGED <<synth_vars, audio_vars, transport_vars, song_vars, resolver_vars,
                   controller_vars, app_vars, lock_vars>>

SpecMapper == InitMapper /\ [][NextMapper]_vars

\* The Mapper under its configuration calls alone.
NextPatterns ==
  \/ NextPattern /\
       UNCHANGED <<synth_vars, audio_vars, transport_vars, song_vars, resolver_vars,
                   controller_vars, app_vars, lock_vars>>
  \/ PrevPattern /\
       UNCHANGED <<synth_vars, audio_vars, transport_vars, song_vars, resolver_vars,
                   controller_vars, app_vars, lock_vars>>
  \/ SetGenre /\
       UNCHANGED <<synth_vars, audio_vars, transport_vars, song_vars, resolver_vars,
                   controller_vars, app_vars, lock_vars>>

SpecPatterns == InitMapper /\ [][NextPatterns]_vars

\* One Mapper fed snapshots with the whammy bar at rest, at the threshold
\* and deflected.
InitWhammy ==
  MapperIdle /\ SynthInit /\ AudioInit /\ TransportIdle /\ SongIdle /\ ResolverIdle /\ ControllerIdle
    /\ AppIdle /\ LocksIdle

NextWhammy ==
  \/ Process /\
       UNCHANGED <<synth_vars, audio_vars, transport_vars, song_vars, resolver_vars,
                   controller_vars, app_vars, lock_vars>>
  \/ ProcessAtRest /\
       UNCHANGED <<synth_vars, audio_vars, transport_vars, song_vars, resolver_vars,
                   controller_vars, app_vars, lock_vars>>
  \/ Panic /\
       UNCHANGED <<synth_vars, audio_vars, transport_vars, song_vars, resolver_vars,
                   controller_vars, app_vars, lock_vars>>

SpecWhammy == InitWhammy /\ [][NextWhammy]_vars

InitSynth == SynthInit /\ MapperIdle /\ AudioInit /\ TransportIdle /\ SongIdle /\ ResolverIdle /\ ControllerIdle
  /\ AppIdle /\ LocksIdle

NextSynth ==
  \/ SynthNoteOn /\
       UNCHANGED <<mapper_vars, audio_vars, transport_vars, song_vars, resolver_vars,
                   controller_vars, app_vars, lock_vars>>
  \/ SynthNoteOff /\
       UNCHANGED <<mapper_vars, audio_vars, transport_vars, song_vars, resolver_vars,
                   controller_vars, app_vars, lock_vars>>
  \/ SynthAllNotesOff /\
       UNCHANGED <<mapper_vars, audio_vars, transport_vars, song_vars, resolver_vars,
                   controller_vars, app_vars, lock_vars>>
  \/ SynthSetInstrument /\
       UNCHANGED <<mapper_vars, audio_vars, transport_vars, song_vars, resolver_vars,
                   controller_vars, app_vars, lock_vars>>
  \/ SynthRender /\
       UNCHANGED <<mapper_vars, audio_vars, transport_vars, song_vars, resolver_vars,
                   controller_vars, app_vars, lock_vars>>

SpecSynth == InitSynth /\ [][NextSynth]_vars

\* The audio callback keeps asking the synthesizer for buffers.
SpecSynthFair ==
  /\ SpecSynth
  /\ WF_vars(SynthRender /\
       UNCHANGED <<mapper_vars, audio_vars, transport_vars, song_vars, resolver_vars,
                   controller_vars, app_vars, lock_vars>>)

InitAudio == AudioInit /\ MapperIdle /\ SynthInit /\ TransportIdle /\ SongIdle /\ ResolverIdle /\ ControllerIdle
  /\ AppIdle /\ LocksIdle

\* The sender and the audio callback on one stream's event queue.
NextEventQueue ==
  \/ SendEvent /\
       UNCHANGED <<mapper_vars, synth_vars, transport_vars, song_vars, resolver_vars,
                   controller_vars, app_vars, lock_vars>>
  \/ AudioCallbackBegin /\
       UNCHANGED <<mapper_vars, synth_vars, transport_vars, song_vars, resolver_vars,
                   controller_vars, app_vars, lock_vars>>
  \/ AudioCallbackPop /\
       UNCHANGED <<mapper_vars, synth_vars, transport_vars, song_vars, resolver_vars,
                   controller_vars, app_vars, lock_vars>>
  \/ AudioCallbackRender /\
       UNCHANGED <<mapper_vars, synth_vars, transport_vars, song_vars, resolver_vars,
                   controller_vars, app_vars, lock_vars>>

SpecEventQueue == InitAudio /\ [][NextEventQueue]_vars

\* The output with its streams failing and being replaced.
NextAudioOutput ==
  \/ SendEventSoon /\
       UNCHANGED <<mapper_vars, synth_vars, transport_vars, song_vars, resolver_vars,
                   controller_vars, app_vars, lock_vars>>
  \/ SendControl /\
       UNCHANGED <<mapper_vars, synth_vars, transport_vars, song_vars, resolver_vars,
                   controller_vars, app_vars, lock_vars>>
  \/ AudioCallbackBegin /\
       UNCHANGED <<mapper_vars, synth_vars, transport_vars, song_vars, resolver_vars,
                   controller_vars, app_vars, lock_vars>>
  \/ AudioCallbackPop /\
       UNCHANGED <<mapper_vars, synth_vars, transport_vars, song_vars, resolver_vars,
                   controller_vars, app_vars, lock_vars>>
  \/ AudioCallbackRender /\
       UNCHANGED <<mapper_vars, synth_vars, transport_vars, song_vars, resolver_vars,
                   controller_vars, app_vars, lock_vars>>
  \/ StreamError /\
       UNCHANGED <<mapper_vars, synth_vars, transport_vars, song_vars, resolver_vars,
                   controller_vars, app_vars, lock_vars>>
  \/ TryReconnectOk /\
       UNCHANGED <<mapper_vars, synth_vars, transport_vars, song_vars, resolver_vars,
                   controller_vars, app_vars, lock_vars>>
  \/ TryReconnectErr /\
       UNCHANGED <<mapper_vars, synth_vars, transport_vars, song_vars, resolver_vars,
                   controller_vars, app_vars, lock_vars>>

SpecAudioOutput == InitAudio /\ [][NextAudioOutput]_vars

InitTransport == TransportInit /\ MapperIdle /\ SynthInit /\ AudioInit /\ SongIdle /\ ResolverIdle /\ ControllerIdle
  /\ AppIdle /\ LocksIdle

NextTransport ==
  \/ Play /\
       UNCHANGED <<mapper_vars, synth_vars, audio_vars, song_vars, resolver_vars,
                   controller_vars, app_vars, lock_vars>>
  \/ Pause /\
       UNCHANGED <<mapper_vars, synth_vars, audio_vars, song_vars, resolver_vars,
                   controller_vars, app_vars, lock_vars>>
  \/ Stop /\
       UNCHANGED <<mapper_vars, synth_vars, audio_vars, song_vars, resolver_vars,
                   controller_vars, app_vars, lock_vars>>
  \/ Seek /\
       UNCHANGED <<mapper_vars, synth_vars, audio_vars, song_vars, resolver_vars,
                   controller_vars, app_vars, lock_vars>>
  \/ SetSpeed /\
       UNCHANGED <<mapper_vars, synth_vars, audio_vars, song_vars, resolver_vars,
                   controller_vars, app_vars, lock_vars>>
  \/ GetCurrentBeat /\
       UNCHANGED <<mapper_vars, synth_vars, audio_vars, song_vars, resolver_vars,
                   controller_vars, app_vars, lock_vars>>
  \/ Tick /\
       UNCHANGED <<mapper_vars, synth_vars, audio_vars, song_vars, resolver_vars,
                   controller_vars, app_vars, lock_vars>>

SpecTransport == InitTransport /\ [][NextTransport]_vars


InitSong == SongIdle /\ MapperIdle /\ SynthInit /\ AudioInit /\ TransportIdle /\ ResolverIdle /\ ControllerIdle
  /\ AppIdle /\ LocksIdle

InitHitDetector ==
  HitDetectorInit /\ MapperIdle /\ SynthInit /\ AudioInit /\ TransportIdle /\ ResolverIdle /\ ControllerIdle
    /\ AppIdle /\ LocksIdle

NextHitDetector ==
  \/ CheckStrum /\
       UNCHANGED <<mapper_vars, synth_vars, audio_vars, transport_vars, resolver_vars,
                   controller_vars, app_vars, lock_vars>>
  \/ UpdateSustain /\
       UNCHANGED <<mapper_vars, synth_vars, audio_vars, transport_vars, resolver_vars,
                   controller_vars, app_vars, lock_vars>>
  \/ Reset /\
       UNCHANGED <<mapper_vars, synth_vars, audio_vars, transport_vars, resolver_vars,
                   controller_vars, app_vars, lock_vars>>

SpecHitDetector == InitHitDetector /\ [][NextHitDetector]_vars

NextScorer ==
  \/ RegisterHit /\
       UNCHANGED <<mapper_vars, synth_vars, audio_vars, transport_vars, resolver_vars,
                   controller_vars, app_vars, lock_vars>>
  \/ ScorerReset /\
       UNCHANGED <<mapper_vars, synth_vars, audio_vars, transport_vars, resolver_vars,
                   controller_vars, app_vars, lock_vars>>

SpecScorer == InitSong /\ [][NextScorer]_vars

NextSongPlayer ==
  \/ LoadChart /\ UNCHANGED <<mapper_vars, synth_vars, audio_vars, resolver_vars,
                              controller_vars, app_vars, lock_vars>>
  \/ SongPlay /\ UNCHANGED <<mapper_vars, synth_vars, audio_vars, resolver_vars,
                             controller_vars, app_vars, lock_vars>>
  \/ SongPause /\ UNCHANGED <<mapper_vars, synth_vars, audio_vars, resolver_vars,
                              controller_vars, app_vars, lock_vars>>
  \/ SongStop /\ UNCHANGED <<mapper_vars, synth_vars, audio_vars, resolver_vars,
                             controller_vars, app_vars, lock_vars>>
  \/ SongSeek /\ UNCHANGED <<mapper_vars, synth_vars, audio_vars, resolver_vars,
                             controller_vars, app_vars, lock_vars>>
  \/ SongSetSpeed /\
       UNCHANGED <<mapper_vars, synth_vars, audio_vars, resolver_vars, controller_vars,
                   app_vars, lock_vars>>
  \/ SongCheckStrum /\
       UNCHANGED <<mapper_vars, synth_vars, audio_vars, resolver_vars, controller_vars,
                   app_vars, lock_vars>>
  \/ SongUpdateSustain /\
       UNCHANGED <<mapper_vars, synth_vars, audio_vars, resolver_vars, controller_vars,
                   app_vars, lock_vars>>
  \/ Tick /\
       UNCHANGED <<mapper_vars, synth_vars, audio_vars, song_vars, resolver_vars,
                   controller_vars, app_vars, lock_vars>>

SpecSongPlayer == InitSong /\ [][NextSongPlayer]_vars

InitResolver ==
  /\ ResolverInit /\ MapperIdle /\ SynthInit /\ AudioInit /\ TransportIdle /\ SongIdle
  /\ ControllerIdle /\ AppIdle /\ LocksIdle

NextResolver ==
  \/ LoadPreset /\
       UNCHANGED <<mapper_vars, synth_vars, audio_vars, transport_vars, song_vars,
                   controller_vars, app_vars, lock_vars>>
  \/ ResolveChordMap /\
       UNCHANGED <<mapper_vars, synth_vars, audio_vars, transport_vars, song_vars,
                   controller_vars, app_vars, lock_vars>>
  \/ ClearCache /\
       UNCHANGED <<mapper_vars, synth_vars, audio_vars, transport_vars, song_vars,
                   controller_vars, app_vars, lock_vars>>

SpecResolver == InitResolver /\ [][NextResolver]_vars


OthersIdle ==
  MapperIdle /\ SynthInit /\ AudioInit /\ TransportIdle /\ SongIdle /\ ResolverIdle
    /\ AppIdle /\ LocksIdle

others_vars ==
  <<mapper_vars, synth_vars, audio_vars, transport_vars, song_vars, resolver_vars, app_vars,
    lock_vars>>

InitController == ControllerIdle /\ OthersIdle

\* Gamepads coming and going under the polling thread and controller scans.
NextDevices ==
  \/ Plug /\ UNCHANGED others_vars
  \/ Unplug /\ UNCHANGED others_vars
  \/ StartPolling /\ UNCHANGED others_vars
  \/ PollWhile /\ UNCHANGED others_vars
  \/ PollBusy /\ UNCHANGED others_vars
  \/ PollCycle /\ UNCHANGED others_vars
  \/ ScanLock /\ UNCHANGED others_vars
  \/ ScanEvents /\ UNCHANGED others_vars

SpecDevices == InitController /\ [][NextDevices]_vars

\* The polling thread reading the strum bar and the d-pad of a gamepad.
NextStrum ==
  \/ Plug /\ UNCHANGED others_vars
  \/ Unplug /\ UNCHANGED others_vars
  \/ PressStrum /\ UNCHANGED others_vars
  \/ StartPolling /\ UNCHANGED others_vars
  \/ PollWhile /\ UNCHANGED others_vars
  \/ PollCycle /\ UNCHANGED others_vars

SpecStrum == InitController /\ [][NextStrum]_vars

\* Starting and stopping the polling thread while a gamepad is played and
\* the driver handle is taken by scans.
NextPolling ==
  \/ Plug /\ UNCHANGED others_vars
  \/ PressFret /\ UNCHANGED others_vars
  \/ SetAudioCallback /\ UNCHANGED others_vars
  \/ StartPolling /\ UNCHANGED others_vars
  \/ PollWhile /\ UNCHANGED others_vars
  \/ PollBusy /\ UNCHANGED others_vars
  \/ PollCycle /\ UNCHANGED others_vars
  \/ StopRequest /\ UNCHANGED others_vars
  \/ StopJoin /\ UNCHANGED others_vars
  \/ ScanLock /\ UNCHANGED others_vars
  \/ ScanEvents /\ UNCHANGED others_vars

SpecPolling == InitController /\ [][NextPolling]_vars

\* A polling thread with or without a callback, under a gamepad whose fret
\* and strum bar are played, and the thread being stopped and started again.
NextEdges ==
  \/ Plug /\ UNCHANGED others_vars
  \/ PressFret /\ UNCHANGED others_vars
  \/ PressStrumUp /\ UNCHANGED others_vars
  \/ SetAudioCallback /\ UNCHANGED others_vars
  \/ StartPolling /\ UNCHANGED others_vars
  \/ PollWhile /\ UNCHANGED others_vars
  \/ PollCycle /\ UNCHANGED others_vars
  \/ StopRequest /\ UNCHANGED others_vars
  \/ StopJoin /\ UNCHANGED others_vars

SpecEdges == InitController /\ [][NextEdges]_vars

\* The operating system runs the polling thread, whose next step is always
\* possible (try_lock returns at once either way), and the thread that
\* called stop_polling; nothing is assumed of the other threads.
SpecPollingFair ==
  /\ SpecPolling
  /\ WF_vars((PollWhile \/ PollBusy \/ PollCycle) /\ UNCHANGED others_vars)
  /\ WF_vars(StopJoin /\ UNCHANGED others_vars)


\* Gamepads plugged in, played and unplugged under a running polling thread
\* and scans from the control thread.
NextUnplug ==
  \/ Plug /\ UNCHANGED others_vars
  \/ Unplug /\ UNCHANGED others_vars
  \/ PressFret /\ UNCHANGED others_vars
  \/ StartPolling /\ UNCHANGED others_vars
  \/ PollWhile /\ UNCHANGED others_vars
  \/ PollBusy /\ UNCHANGED others_vars
  \/ PollCycle /\ UNCHANGED others_vars
  \/ ScanLock /\ UNCHANGED others_vars
  \/ ScanEvents /\ UNCHANGED others_vars

SpecUnplug == InitController /\ [][NextUnplug]_vars

\* The polling thread keeps running and a scan that has the driver handle
\* runs to its end.
SpecUnplugFair ==
  /\ SpecUnplug
  /\ WF_vars((PollWhile \/ PollBusy \/ PollCycle) /\ UNCHANGED others_vars)
  /\ WF_vars(ScanEvents /\ UNCHANGED others_vars)

InitApp ==
  /\ MapperIdle /\ SynthInit /\ AudioInit /\ TransportIdle /\ SongIdle /\ ResolverIdle
  /\ ControllerIdle /\ AppIdle /\ LocksIdle

\* Two threads of the command pool in process_controller_input, and the
\* audio callback.
NextAppThreads ==
  \/ AppProcessPlayed /\
       UNCHANGED <<synth_vars, audio_vars, transport_vars, song_vars, resolver_vars,
                   controller_vars, lock_vars>>
  \/ AppSendAny /\
       UNCHANGED <<mapper_vars, synth_vars, transport_vars, song_vars, resolver_vars,
                   controller_vars, lock_vars>>
  \/ AudioCallbackBegin /\
       UNCHANGED <<mapper_vars, synth_vars, transport_vars, song_vars, resolver_vars,
                   controller_vars, app_vars, lock_vars>>
  \/ AudioCallbackPop /\
       UNCHANGED <<mapper_vars, synth_vars, transport_vars, song_vars, resolver_vars,
                   controller_vars, app_vars, lock_vars>>
  \/ AudioCallbackRender /\
       UNCHANGED <<mapper_vars, synth_vars, transport_vars, song_vars, resolver_vars,
                   controller_vars, app_vars, lock_vars>>

SpecAppThreads == InitApp /\ [][NextAppThreads]_vars

\* The event queue filling up while the audio device runs no callback.
NextAppFill ==
  \/ AppBendAlone /\
       UNCHANGED <<synth_vars, audio_vars, transport_vars, song_vars, resolver_vars,
                   controller_vars, lock_vars>>
  \/ AppSendAlone /\
       UNCHANGED <<mapper_vars, synth_vars, transport_vars, song_vars, resolver_vars,
                   controller_vars, lock_vars>>

SpecAppFill == InitApp /\ [][NextAppFill]_vars

\* A state SpecAppFill reaches.
InitAppBacklog ==
  /\ AppBacklog
  /\ SynthInit /\ TransportIdle /\ SongIdle /\ ResolverIdle /\ ControllerIdle /\ LocksIdle

\* One thread playing the guitar into an event queue that a stalled audio
\* device has left nearly full, and the audio callback, running again,
\* taking the events to the synthesizer.
NextAppPlay ==
  \/ AppProcessAlone /\
       UNCHANGED <<synth_vars, audio_vars, transport_vars, song_vars, resolver_vars,
                   controller_vars, lock_vars>>
  \/ AppSendAlone /\
       UNCHANGED <<mapper_vars, synth_vars, transport_vars, song_vars, resolver_vars,
                   controller_vars, lock_vars>>
  \/ EngineCallback /\
       UNCHANGED <<mapper_vars, transport_vars, song_vars, resolver_vars, controller_vars,
                   app_vars, lock_vars>>

SpecAppPlay == InitAppBacklog /\ [][NextAppPlay]_vars

others_but_locks ==
  <<mapper_vars, synth_vars, audio_vars, transport_vars, song_vars, resolver_vars, app_vars>>

InitLocks == InitController

\* The polling thread and two command threads on the controller's mutexes.
NextLocks ==
  \/ PollingLoop /\ UNCHANGED <<others_but_locks, controller_vars>>
  \/ CommandCall /\ UNCHANGED <<others_but_locks, controller_vars>>
  \/ Acquire /\ UNCHANGED <<others_but_locks, controller_vars>>
  \/ TryAcquire /\ UNCHANGED <<others_but_locks, controller_vars>>
  \/ Release /\ UNCHANGED <<others_but_locks, controller_vars>>
  \/ StoreStop /\ UNCHANGED <<others_but_locks, controller_vars>>
  \/ Join /\ UNCHANGED <<others_but_locks, controller_vars>>

SpecLocks == InitLocks /\ [][NextLocks]_vars

\* One thread playing the whammy bar, and the audio callback.
NextAppBend ==
  \/ AppWhammy /\
       UNCHANGED <<synth_vars, audio_vars, transport_vars, song_vars, resolver_vars,
                   controller_vars, lock_vars>>
  \/ AppSendAlone /\
       UNCHANGED <<mapper_vars, synth_vars, transport_vars, song_vars, resolver_vars,
                   controller_vars, lock_vars>>
  \/ EngineCallback /\
       UNCHANGED <<mapper_vars, transport_vars, song_vars, resolver_vars, controller_vars,
                   app_vars, lock_vars>>

SpecAppBend == InitApp /\ [][NextAppBend]_vars

\* Settings and backend switches sent through the control channel while
\* notes are played.
NextEngineSettings ==
  \/ SendEventSoon /\
       UNCHANGED <<mapper_vars, synth_vars, transport_vars, song_vars, resolver_vars,
                   controller_vars, app_vars, lock_vars>>
  \/ SendControl /\
       UNCHANGED <<mapper_vars, synth_vars, transport_vars, song_vars, resolver_vars,
                   controller_vars, app_vars, lock_vars>>
  \/ SendSetting /\
       UNCHANGED <<mapper_vars, synth_vars, transport_vars, song_vars, resolver_vars,
                   controller_vars, app_vars, lock_vars>>
  \/ AudioCallbackBegin /\
       UNCHANGED <<mapper_vars, synth_vars, transport_vars, song_vars, resolver_vars,
                   controller_vars, app_vars, lock_vars>>
  \/ AudioCallbackPop /\
       UNCHANGED <<mapper_vars, synth_vars, transport_vars, song_vars, resolver_vars,
                   controller_vars, app_vars, lock_vars>>
  \/ AudioCallbackRender /\
       UNCHANGED <<mapper_vars, synth_vars, transport_vars, song_vars, resolver_vars,
                   controller_vars, app_vars, lock_vars>>

SpecEngineSettings == InitAudio /\ [][NextEngineSettings]_vars

\* A SongPlayer strummed at the two ends of an event's hit window.
NextStrumWindow ==
  \/ LoadChart /\ UNCHANGED <<mapper_vars, synth_vars, audio_vars, resolver_vars,
                              controller_vars, app_vars, lock_vars>>
  \/ SongSeekEdge /\ UNCHANGED <<mapper_vars, synth_vars, audio_vars, resolver_vars,
                                 controller_vars, app_vars, lock_vars>>
  \/ SongStop /\ UNCHANGED <<mapper_vars, synth_vars, audio_vars, resolver_vars,
                             controller_vars, app_vars, lock_vars>>
  \/ SongCheckStrum /\
       UNCHANGED <<mapper_vars, synth_vars, audio_vars, resolver_vars, controller_vars,
                   app_vars, lock_vars>>

SpecStrumWindow == InitSong /\ [][NextStrumWindow]_vars
\* ------------------------------------------------------------------------
\* FallbackSynth: voice allocation and envelope life cycle
\* ------------------------------------------------------------------------
Voices == 1..MAX_VOICES

stage(self, i) == self.voices[i].envelope_stage

ActiveVoices(self) == {i \in Voices : stage(self, i) # "Off"}

Triggered(voice) ==
  /\ voice.envelope_stage = "Attack"
  /\ voice.envelope_value = 0
  /\ voice.note \in SynthNotes

NoteOnStep == n_on' = n_on + 1
ReleaseStep == n_rel' = n_rel + 1
RenderStep == n_on' = n_on /\ n_rel' = n_rel /\ synth' # synth

StageStep(i) ==
  LET old == synth.voices[i]
      new == synth'.voices[i]
      s0 == old.envelope_stage
      s1 == new.envelope_stage
  IN
    \/ new = old
    \/ s1 = "Attack" /\ new # old /\ NoteOnStep /\ Triggered(new)
    \/ /\ s0 = "Attack" /\ s1 = "Attack"
       /\ RenderStep /\ new.envelope_value > old.envelope_value
       /\ new.envelope_value < EnvFull
    \/ s0 = "Attack" /\ s1 = "Sustain" /\ RenderStep /\ new.envelope_value = EnvFull
    \/ /\ s0 \in {"Attack", "Sustain"} /\ s1 = "Release"
       /\ ReleaseStep
       /\ new.envelope_value = old.envelope_value
       /\ \/ s_op' = "note_off" /\ s_note' = old.note
          \/ s_op' = "all_notes_off"
          \/ s_op' = "set_instrument"
    \/ /\ s0 = "Release" /\ s1 = "Release"
       /\ RenderStep /\ new.envelope_value < old.envelope_value
       /\ new.envelope_value > 0
    \/ s0 = "Release" /\ s1 = "Off" /\ RenderStep /\ new.envelope_value = 0

\* Every releasing event leaves the voices it is for released.
Released(i) ==
  ReleaseStep /\ (s_op' = "note_off" => s_note' = synth.voices[i].note)
    => stage(synth', i) \in {"Release", "Off"}

\* C5: a voice's envelope stage changes only Off -> Attack (NoteOn),
\* Attack -> Sustain (envelope reaches full), Attack/Sustain -> Release
\* (NoteOff for its note, panic, instrument change), Release -> Off (envelope
\* reaches zero), or back to Attack when retriggered; and after a NoteOff,
\* with rendering going on and no further NoteOn, every voice playing that
\* note becomes inactive.
C5_EnvelopeLifeCycle ==
  /\ [][\A i \in Voices : StageStep(i) /\ Released(i)]_vars
  /\ \A n \in NoteOffNotes :
       (s_op = "note_off" /\ s_note = n)
         ~> \/ s_op = "note_on"
            \/ \A i \in Voices : synth.voices[i].note = n => ~is_active(synth.voices[i])

\* A NoteOff was the last event, and every voice, some of them having played
\* its note, has decayed to Off.
C5_Witness ==
  /\ s_op = "note_off"
  /\ s_note \in SynthNotes
  /\ ActiveVoices(synth) = {}
  /\ Cardinality({i \in Voices : synth.voices[i].note = s_note}) >= 2

\* ------------------------------------------------------------------------
\* AudioOutput: full queue, reconnection, stream errors
\* ------------------------------------------------------------------------
PopStep == Len(ring') < Len(ring)
SendStep == callback' = callback /\ ~PopStep /\ audio_vars' # audio_vars
ReconnectedStep == created' # created

\* C6: send_event on a full event queue (1024 pending events) returns an
\* error and leaves the queued events and their order as they were, only the
\* new event being lost; a send_event on a queue that is not full, as it is
\* once the audio callback has taken events off it, appends the event and
\* succeeds; the callback takes the events in the order they were sent.
C6_QueueFull ==
  [][/\ SendStep =>
          IF Len(ring) = RingCapacity
            THEN a_call'.result = "Err" /\ ring' = ring
            ELSE /\ a_call'.result = "Ok"
                 /\ ring' = Append(ring, NoteOn(EventNotes[next_event], 100))
     /\ Len(ring') <= RingCapacity
     /\ PopStep =>
          /\ ring' = Tail(ring)
          /\ engine'.note = Head(ring).note]_vars

\* A send was rejected by the full queue, the callback has emptied the queue
\* since, and the send after that was accepted.
C6_Witness ==
  /\ rejected
  /\ a_call = Called("send_event", "Ok")
  /\ Len(ring) = 1
  /\ engine.note # 0

\* C7: a successful try_reconnect keeps the event and control queues: the
\* events and commands accepted before it and not yet consumed by the audio
\* callback are still waiting for the engine that plays afterwards.
C7_ReconnectKeepsQueues ==
  [][ReconnectedStep => ring' = ring /\ channel' = channel]_vars

\* C8: once the stream in use has reported a device error,
\* has_stream_error() is true until a try_reconnect succeeds, for the
\* initial stream and for every stream a try_reconnect has created.
C8_StickyStreamError == reported => has_stream_error

\* ------------------------------------------------------------------------
\* Transport: the beat clock
\* ------------------------------------------------------------------------
\* C9: while the Transport is playing, get_current_beat() is the beat stored
\* at the last anchor (play, seek or set_speed) plus the seconds elapsed since
\* it times bpm times speed_multiplier over 60; while it is not playing,
\* get_current_beat() stays the same however much time passes.
C9_BeatClock ==
  /\ get_current_beat(transport, now).result =
       Position(transport.is_playing, transport.speed_multiplier)
  /\ t_call = "get_current_beat" =>
       t_result = <<Position(transport.is_playing, transport.speed_multiplier)>>

\* Playing at a changed speed, some seconds after the set_speed that set the
\* anchor, itself some seconds after the start: get_current_beat has moved on.
C9_Witness ==
  /\ transport.is_playing
  /\ t_call = "get_current_beat"
  /\ transport.speed_multiplier # SpeedUnit
  /\ anchor.time > 0
  /\ now > anchor.time
  /\ anchor.beat # 0
  /\ t_result[1] > anchor.beat

\* C10: wherever it is called, stop() leaves is_playing false and
\* current_beat at -(count_in_bars * time_sig[0]), and get_current_beat()
\* returns that beat until the next play or seek.
C10_StopResets ==
  stopped =>
    LET beat == -(transport.count_in_bars * transport.time_sig[1] * BeatUnit) IN
      /\ ~transport.is_playing
      /\ transport.current_beat = beat
      /\ get_current_beat(transport, now).result = beat
      /\ t_call = "get_current_beat" => t_result = <<beat>>

\* Stopped from a count-in of two bars, time has passed, the speed has been
\* changed since, and get_current_beat still answers the count-in beat.
C10_Witness ==
  /\ stopped
  /\ t_call = "get_current_beat"
  /\ now > anchor.time
  /\ anchor.time > 0
  /\ transport.count_in_bars > 0
  /\ transport.speed_multiplier # SpeedUnit
  /\ t_result[1] < 0


\* C11: set_speed(m) called while playing does not move the beat at the
\* instant of the call and leaves is_playing as it was: the time before the
\* call has been converted at the old speed, and dt seconds after the call
\* the beat is the beat at the call plus dt seconds converted at speed m.
C11_SetSpeedKeepsBeat ==
  [][(t_call' = "set_speed" /\ transport.is_playing) =>
       LET at_call == get_current_beat(transport, now).result IN
         /\ transport'.is_playing
         /\ get_current_beat(transport', now).result = at_call
         /\ \A dt \in 1..MaxTime :
              get_current_beat(transport', now + dt).result =
                at_call + dt * transport.bpm * transport'.speed_multiplier]_vars

\* A set_speed to another speed has just been called while playing, some
\* seconds after the start, with beats already played at the old speed.
C11_Witness ==
  /\ t_call = "set_speed"
  /\ transport.is_playing
  /\ transport.speed_multiplier # SpeedUnit
  /\ transport.start_instant = <<now>>
  /\ now > 0
  /\ transport.paused_at_beat > 0

\* ------------------------------------------------------------------------
\* HitDetector: the hit window, the fret match, the hit history, the sustain
\* ------------------------------------------------------------------------
StrumStep == song_call' = "check_strum"

\* The event lies within half a beat of the strum, the two ends included.
InWindow(event, current_beat) == 2 * Abs(event.beat - current_beat) <= BeatUnit

\* The event has been returned as a Hit since the last reset.
HitBefore(event) ==
  \E i \in 1..Len(hit_log) :
    hit_log[i] = [beat |-> event.beat, chord |-> event.chord]

\* An event of the same chord less than 0.01 beat from this one has been
\* returned as a Hit since the last reset.
HitNearby(event) ==
  \E i \in 1..Len(hit_log) :
    /\ hit_log[i].chord = event.chord
    /\ 100 * Abs(hit_log[i].beat - event.beat) < BeatUnit

\* C12: check_strum treats a not-yet-hit event as a candidate exactly when
\* |event.beat - current_beat| <= 0.5, both ends included and with accuracy 0
\* at exactly 0.5; if no event is a candidate the result is
\* Miss(NoEventInWindow) and the hit history and the sustain are unchanged.
C12_HitWindow ==
  [][StrumStep =>
       LET call == song_input'
           open == {i \in 1..Len(call.chord_events) :
                      /\ InWindow(call.chord_events[i], call.current_beat)
                      /\ ~HitBefore(call.chord_events[i])}
       IN /\ (open = {}) <=> (song_result'.type = "Miss"
                               /\ song_result'.reason = "NoEventInWindow")
          /\ open = {} => hit_detector' = hit_detector
          /\ (/\ song_result'.type = "Hit"
              /\ 2 * Abs(song_result'.event.beat - call.current_beat) = BeatUnit)
               => song_result'.accuracy.num = 0]_vars

\* C12 as amended: an event counts as hit already when an event of the same
\* chord less than 0.01 beat from it has been hit; every other event is a
\* candidate exactly when |event.beat - current_beat| <= 0.5, both ends
\* included and with accuracy 0 at exactly 0.5; if no event is a candidate the
\* result is Miss(NoEventInWindow) and the detector is unchanged.
C12_HitWindowAmended ==
  [][StrumStep =>
       LET call == song_input'
           open == {i \in 1..Len(call.chord_events) :
                      /\ InWindow(call.chord_events[i], call.current_beat)
                      /\ ~HitNearby(call.chord_events[i])}
       IN /\ (open = {}) <=> (song_result'.type = "Miss"
                               /\ song_result'.reason = "NoEventInWindow")
          /\ open = {} => hit_detector' = hit_detector
          /\ (/\ song_result'.type = "Hit"
              /\ 2 * Abs(song_result'.event.beat - call.current_beat) = BeatUnit)
               => song_result'.accuracy.num = 0]_vars

\* A strum just over half a beat from an event that has not been hit finds no
\* event in the window, after a hit at exactly half a beat opened a sustain.
C12_Witness ==
  /\ song_call = "check_strum"
  /\ song_result = Miss("NoEventInWindow")
  /\ hit_detector.sustaining_event # <<>>
  /\ \E i \in 1..Len(hit_detector.hit_events) :
       2 * Abs(hit_detector.hit_events[i].beat
                 - hit_detector.hit_events[i].hit_at_beat) = BeatUnit
  /\ \E i \in 1..Len(song_input.chord_events) :
       LET event == song_input.chord_events[i] IN
         /\ ~HitBefore(event)
         /\ 2 * Abs(event.beat - song_input.current_beat) = BeatUnit + 2

\* The events of the call that check_strum takes as candidates.
Candidates(call) ==
  SelectSeq(call.chord_events, LAMBDA event :
    InWindow(event, call.current_beat) /\ ~HitNearby(event))

\* The two lists name the same set of frets.
SameFretSet(pressed, required) == Range(pressed) = Range(required)

\* The two lists hold the same frets the same number of times, in any order.
SameFrets(pressed, required) ==
  \A fret \in Range(pressed) \cup Range(required) :
    Cardinality({i \in 1..Len(pressed) : pressed[i] = fret})
      = Cardinality({i \in 1..Len(required) : required[i] = fret})

\* The result is a Hit on this event.
IsHitOn(result, event) ==
  /\ result.type = "Hit"
  /\ result.event.beat = event.beat
  /\ result.event.chord = event.chord

C14_HitOnce ==
  \A i, j \in 1..Len(hit_log) : hit_log[i] = hit_log[j] => i = j

\* A strum with the right frets, in the window of an event that was hit by an
\* earlier strum, is answered with a Miss.
C14_Witness ==
  /\ song_call = "check_strum"
  /\ song_result.type = "Miss"
  /\ Len(hit_log) >= 2
  /\ \E i \in 1..Len(song_input.chord_events) :
       LET event == song_input.chord_events[i] IN
         /\ HitBefore(event)
         /\ InWindow(event, song_input.current_beat)
         /\ SameFrets(song_input.pressed, hit_detector.chord_mappings[event.chord])

SustainStep == song_call' = "update_sustain"

\* C15: update_sustain(beat, frets) returns true exactly when a sustain is
\* open, event.beat <= beat <= event.beat + dur, and frets equal the hit
\* event's required fret set; once it returns false the sustain is closed,
\* and every later update_sustain returns false until another Hit on an event
\* with dur >= 2.
C15_SustainFretSet ==
  [][SustainStep =>
       LET call == song_input' IN
         song_result' =
           (/\ held # <<>>
            /\ held[1].dur >= 2 * BeatUnit
            /\ held[1].beat <= call.current_beat
            /\ call.current_beat <= held[1].beat + held[1].dur
            /\ SameFretSet(call.pressed,
                           hit_detector.chord_mappings[held[1].chord]))]_vars

\* C15 as amended: the frets are to be the hit event's required frets the same
\* number of times each, in any order.
C15_SustainFretList ==
  [][SustainStep =>
       LET call == song_input' IN
         song_result' =
           (/\ held # <<>>
            /\ held[1].dur >= 2 * BeatUnit
            /\ held[1].beat <= call.current_beat
            /\ call.current_beat <= held[1].beat + held[1].dur
            /\ SameFrets(call.pressed,
                         hit_detector.chord_mappings[held[1].chord]))]_vars

\* An update_sustain within the beats of a hit event of two beats, with its
\* frets held, returns false because an earlier update closed the sustain.
C15_Witness ==
  /\ song_call = "update_sustain"
  /\ song_result = FALSE
  /\ held = <<>>
  /\ \E chord_events \in EventInputs : \E i \in 1..Len(chord_events) :
       LET event == chord_events[i] IN
         /\ HitBefore(event)
         /\ event.dur >= 2 * BeatUnit
         /\ event.beat < song_input.current_beat
         /\ song_input.current_beat < event.beat + event.dur
         /\ SameFrets(song_input.pressed, hit_detector.chord_mappings[event.chord])

\* ------------------------------------------------------------------------
\* Scorer: hits and misses
\* ------------------------------------------------------------------------
RegisteredHit == song_call' = "register_hit" /\ song_input'.type = "Hit"

RegisteredMiss == song_call' = "register_hit" /\ song_input'.type = "Miss"

\* C16: register_hit with a Hit increments combo and hits by 1, raises
\* max_combo to combo when exceeded, and adds floor(100 x accuracy x m) to
\* score, where m is 1, 2, 3 or 4 for a combo, counting this hit, of 0-9,
\* 10-19, 20-29 or 30 and more.
C16_HitScore ==
  [][RegisteredHit =>
       LET combo == scorer.combo + 1
           m == 1 + (IF combo >= 10 THEN 1 ELSE 0) + (IF combo >= 20 THEN 1 ELSE 0)
                  + (IF combo >= 30 THEN 1 ELSE 0)
           accuracy == song_input'.accuracy
           points == scorer'.score - scorer.score
       IN /\ scorer'.combo = combo
          /\ scorer'.hits = scorer.hits + 1
          /\ scorer'.max_combo = IF combo > scorer.max_combo THEN combo
                                 ELSE scorer.max_combo
          /\ points * accuracy.den <= 100 * accuracy.num * m
          /\ 100 * accuracy.num * m < (points + 1) * accuracy.den]_vars

\* A Hit of accuracy 2/3 at a combo of 30 or more, the best so far: 266
\* points for 266.67.
C16_Witness ==
  /\ song_call = "register_hit"
  /\ song_input.type = "Hit"
  /\ scorer.combo >= 30
  /\ scorer.max_combo = scorer.combo
  /\ (100 * song_input.accuracy.num * 4) % song_input.accuracy.den # 0

\* C17: register_hit with a Miss sets combo to 0 and the multiplier to 1 and
\* increments misses by 1, leaving score, hits and max_combo unchanged.
C17_MissResets ==
  [][RegisteredMiss =>
       /\ scorer'.combo = 0
       /\ scorer'.combo_multiplier = 1
       /\ scorer'.misses = scorer.misses + 1
       /\ scorer'.score = scorer.score
       /\ scorer'.hits = scorer.hits
       /\ scorer'.max_combo = scorer.max_combo]_vars

\* A Miss right after a combo of ten or more hits, at multiplier 2 or more.
C17_Witness ==
  /\ song_call = "register_hit"
  /\ song_input.type = "Miss"
  /\ scorer.combo = 0
  /\ scorer.combo_multiplier = 1
  /\ scorer.misses = 1
  /\ scorer.max_combo >= 10
  /\ scorer.hits = scorer.max_combo
  /\ scorer.score > 0

\* ------------------------------------------------------------------------
\* SongPlayer: the score, failed loads, the chart held
\* ------------------------------------------------------------------------
ScoreState ==
  <<scorer.score, scorer.combo, scorer.max_combo, scorer.hits, scorer.misses>>

\* C18: through SongPlayer the score state (score, combo, max_combo, hits,
\* misses) is zeroed by a successful load_chart and by stop, is otherwise
\* changed only by check_strum, and is left unchanged by play, pause, seek,
\* set_speed and update_sustain: a sustain that ends is not counted as a miss.
C18_ScoreLifecycle ==
  [][/\ (now' = now /\ song_call' = "load_chart" /\ song_result'.type = "Ok")
          => ScoreState' = <<0, 0, 0, 0, 0>>
     /\ (now' = now /\ song_call' = "stop") => ScoreState' = <<0, 0, 0, 0, 0>>
     /\ ScoreState' # ScoreState
          => song_call' \in {"load_chart", "stop", "check_strum"}
     /\ song_call' \in {"play", "pause", "seek", "set_speed", "update_sustain"}
          => ScoreState' = ScoreState]_vars

\* While playing, an update_sustain has returned false after the sustain of a
\* hit event was closed, and the score shows the hit and no miss.
C18_Witness ==
  /\ song_call = "update_sustain"
  /\ song_result = FALSE
  /\ transport.is_playing
  /\ held = <<>>
  /\ \E i \in 1..Len(hit_log) : hit_log[i] = [beat |-> EvA.beat, chord |-> EvA.chord]
  /\ scorer.hits = 1
  /\ scorer.score > 0
  /\ scorer.misses = 0

\* C19: if load_chart fails, on a JSON parse error or a validation error, the
\* chart loaded before, the transport (position, playing flag, bpm, speed),
\* the hit history and the score are all unchanged.
C19_FailedLoad ==
  [][(now' = now /\ song_call' = "load_chart" /\ song_result'.type = "Err") =>
       /\ chart' = chart
       /\ transport' = transport
       /\ get_current_beat(transport', now).result
            = get_current_beat(transport, now).result
       /\ hit_detector' = hit_detector
       /\ scorer' = scorer]_vars

\* A chart whose event names an unmapped chord has been refused while another
\* chart was playing with a hit scored.
C19_Witness ==
  /\ song_call = "load_chart"
  /\ song_result = Err("Chord not found in mapping")
  /\ chart # <<>>
  /\ transport.is_playing
  /\ now > 0
  /\ hit_detector.hit_events # <<>>
  /\ scorer.score > 0

\* C20: whenever SongPlayer holds a chart, that chart has bpm > 0, a non-zero
\* time-signature denominator, every lane event's chord in mapping.chords and
\* every event's dur > 0, so that every event passed to the HitDetector has a
\* fret mapping.
C20_ChartValid ==
  chart # <<>> =>
    /\ chart[1].clock.bpm > 0
    /\ chart[1].clock.time_sig[2] # 0
    /\ \A l \in 1..Len(chart[1].lanes) :
         \A i \in 1..Len(chart[1].lanes[l].events) :
           LET event == chart[1].lanes[l].events[i] IN
             /\ event.chord \in DOMAIN chart[1].mapping.chords
             /\ event.dur > 0
             /\ event.chord \in DOMAIN hit_detector.chord_mappings

\* The second chart has replaced the first and a strum on it is a Hit.
C20_Witness ==
  /\ chart # <<>>
  /\ chart[1].clock.bpm = 90
  /\ song_call = "check_strum"
  /\ song_result # <<>>
  /\ song_result[1].type = "Hit"
\* ------------------------------------------------------------------------
\* Chord resolution properties
\* ------------------------------------------------------------------------
Resolved == r_call.name = "resolve_chord_map" /\ r_result.type = "Ok"

\* C21: for every genre with a preset loaded, the six built-in default
\* presets among them, and every key, mode and fret row, resolve_chord_map
\* returns a table holding a chord for each of the five fret buttons.
C21_FiveChords ==
  Resolved => DOMAIN r_result.value = Range(FretButton)

\* The fallback path of load_all_presets is what the resolver holds, and a
\* resolved table has lost a button.
C21_Witness ==
  /\ Resolved
  /\ resolver.presets[r_call.genre] = create_default_preset(r_call.genre)
  /\ DOMAIN r_result.value # Range(FretButton)

\* What resolve_chord_map returns on a resolver holding the same presets and
\* an empty cache.
Uncached(call) ==
  resolve_chord_map([resolver EXCEPT !.cache = EmptyMap], call.genre, call.key_root,
                    call.mode, call.row, call.overrides).result

\* C22: as long as the loaded presets stay as they are, the result of
\* resolve_chord_map is a function of its arguments: a call answered from
\* the cache returns what the uncached call returns, and the overrides of an
\* earlier call leave no trace in a later one.
C22_CacheTransparent ==
  (r_call.name = "resolve_chord_map" /\ r_call.genre \notin cached_for)
    => r_result = Uncached(r_call)

\* A call with an override was answered and the next call, with the same
\* key and no override, came from the cache.
C22_Witness ==
  /\ Resolved
  /\ r_call.overrides = <<>>
  /\ r_call.row = "Main"
  /\ r_call.cached
  /\ r_call.after_overrides
  /\ r_result.value["Green"] # ChordSpec_new("A", "Minor")

\* ------------------------------------------------------------------------
\* Pattern cycling
\* ------------------------------------------------------------------------
PatternCount == Len(get_patterns(mapper.genre))

RECURSIVE NextPatternTimes(_, _)
NextPatternTimes(self, k) ==
  IF k = 0 THEN self ELSE NextPatternTimes(next_pattern(self), k - 1)

\* C23: with n the pattern count of the current genre, next_pattern takes
\* index i to (i+1) mod n and prev_pattern takes it to (i-1) mod n; next
\* then prev, and prev then next, restore the index; n next_pattern calls
\* in a row come back to the start; and pattern_index < n after any
\* sequence of next_pattern, prev_pattern and set_genre.
C23_PatternCycle ==
  /\ [](/\ mapper.pattern_index < PatternCount
        /\ prev_pattern(next_pattern(mapper)) = mapper
        /\ next_pattern(prev_pattern(mapper)) = mapper
        /\ NextPatternTimes(mapper, PatternCount) = mapper)
  /\ [][/\ m_op' = "next_pattern" =>
             mapper'.pattern_index = (mapper.pattern_index + 1) % PatternCount
        /\ m_op' = "prev_pattern" =>
             mapper'.pattern_index = (mapper.pattern_index - 1) % PatternCount]_vars

\* prev_pattern wrapped from the first pattern to the last of a genre that
\* was switched to.
C23_Witness ==
  /\ m_op = "prev_pattern"
  /\ mapper.genre = "Punk"
  /\ mapper.pattern_index = PatternCount - 1

\* ------------------------------------------------------------------------
\* Whammy bar
\* ------------------------------------------------------------------------
PitchBends(evs) == {i \in 1..Len(evs) : evs[i].type = "PitchBend"}

\* The events of the last process call hold one PitchBend, at the end.
OneBendLast == PitchBends(events) = {Len(events)} /\ events # <<>>

\* C24 as stated: every process call with a non-zero whammy axis emits
\* exactly one PitchBend, as the call's last event, with or without a strum
\* or fret edge; a call with the axis at zero emits none.
C24_BendWhenNonZero ==
  m_op = "process" =>
    IF axis(input) # 0 THEN OneBendLast ELSE PitchBends(events) = {}

\* C24 amended: every process call with the whammy axis further than 0.01
\* from zero emits exactly one PitchBend, as the call's last event, with or
\* without a strum or fret edge; a call with the axis within 0.01 of zero
\* emits none.
C24_BendBeyondThreshold ==
  m_op = "process" =>
    IF Abs(axis(input)) > 1 THEN OneBendLast ELSE PitchBends(events) = {}

\* A call that retriggered notes and bent the pitch after them.
C24_Witness ==
  /\ m_op = "process"
  /\ Abs(axis(input)) > 1
  /\ Len(events) > 1
  /\ OneBendLast

\* ------------------------------------------------------------------------
\* Panic
\* ------------------------------------------------------------------------
\* C25: PanicAllNotesOff stops all notes immediately: right after the
\* engine has handled the event (synth.all_notes_off), before any further
\* rendering, the active voice count is 0.
C25_PanicSilences ==
  [][(s_op' = "all_notes_off" /\ n_rel' = n_rel + 1)
       => active_voice_count(synth') = 0]_vars

\* ------------------------------------------------------------------------
\* Controller properties
\* ------------------------------------------------------------------------
\* C26: the first connected device becomes the active device and stays
\* active until it disconnects: while the active device stays plugged in,
\* neither a Connected notification for another device nor a controller scan
\* changes which device is active.
C26_FirstDeviceStays ==
  [][(/\ active_gamepad # <<>>
      /\ active_gamepad[1] \in devices.plugged
      /\ active_gamepad[1] \in devices'.plugged)
     => active_gamepad' = active_gamepad]_vars

\* C27: on a device with a trigger-pair strum bar strum_up and strum_down
\* follow the triggers only, never the d-pad, and the d-pad is reported in
\* dpad_up and dpad_down; on a device without the pair the strum follows
\* d-pad up and down, and dpad_up and dpad_down are false.
C27_StrumSource ==
  (c_call = "poll_cycle" /\ active_gamepad # <<>>) =>
    LET down == devices.down[active_gamepad[1]]
    IN IF active_gamepad[1] \in TriggerPairGamepads
       THEN /\ atomic_state.strum_up = ("RightTrigger" \in down)
            /\ atomic_state.strum_down = ("RightTrigger2" \in down)
            /\ atomic_state.dpad_up = ("DPadUp" \in down)
            /\ atomic_state.dpad_down = ("DPadDown" \in down)
       ELSE /\ atomic_state.strum_up = ("DPadUp" \in down)
            /\ atomic_state.strum_down = ("DPadDown" \in down)
            /\ ~atomic_state.dpad_up
            /\ ~atomic_state.dpad_down

\* No stop_polling call is under way and the controller holds no thread.
Stopped == stop_polling = "idle" /\ polling_thread = <<>>

\* C29: once stop_polling is called the polling thread exits and
\* stop_polling returns, whatever the interleaving, also while another
\* thread holds or keeps taking the driver handle; and from its return to
\* the next start_polling the polling thread stores nothing in the snapshot
\* and fires no callback.
C29_StopJoins ==
  /\ (stop_polling = "join") ~> (stop_polling = "idle" /\ thread.pc = "exited")
  /\ [](Stopped => thread.pc \in {"none", "exited"})
  /\ [][Stopped => /\ c_call' # "poll_cycle"
                   /\ fired' = fired
                   /\ atomic_state' # atomic_state => c_call' = "process_events"]_vars

\* stop_polling has returned from a thread that had polled a gamepad, while
\* a scan held the driver handle.
C29_Witness ==
  /\ c_call = "stop_polling_returned"
  /\ thread.pc = "exited"
  /\ atomic_state.last_update = 1
  /\ gilrs.holder = "process_events"


\* ------------------------------------------------------------------------
\* The audio callback: what it may do, and in which order
\* ------------------------------------------------------------------------
\* C28: no step of the audio callback, the applying of the control commands
\* found at its start included, allocates memory, does file I/O or takes a
\* lock that another thread can hold.
C28_CallbackRealtimeSafe == cb_done.effects = {}

SameStream == created' = created

\* C30: in every audio callback all the control commands waiting at its
\* start are applied before any queued event is, and all the queued events
\* are applied before the buffer is rendered: commands leave the channel only
\* in the first step of a callback, which empties it and applies them in
\* order without touching the event queue; events leave the queue only after
\* that step, each one applied as it is taken; the callback ends, rendering,
\* only on an empty queue.
C30_CommandsThenEvents ==
  [][SameStream =>
       /\ (callback = "idle" /\ callback' = "events") =>
            /\ channel' = <<>>
            /\ engine' = handle_commands(engine, channel)
            /\ ring' = ring
       /\ Len(channel') < Len(channel) => callback = "idle" /\ callback' = "events"
       /\ Len(ring') < Len(ring) =>
            /\ callback = "events" /\ callback' = "events"
            /\ engine' = handle_event(engine, Head(ring))
            /\ channel' = channel
       /\ (callback = "events" /\ engine' # engine) => Len(ring') < Len(ring)
       /\ (callback' = "idle" /\ engine' # engine) => FALSE
       /\ (callback = "events" /\ callback' = "idle") => ring = <<>>]_vars

\* A callback that found two or more commands and at least one event has
\* rendered its buffer.
C30_Witness ==
  /\ callback = "idle"
  /\ cb_done.commands >= 2
  /\ cb_done.events

\* ------------------------------------------------------------------------
\* The polling loop: edge callbacks, a busy driver handle, disconnects
\* ------------------------------------------------------------------------
\* How many times a callback was made in a cycle.
Times(callbacks, name) == Cardinality({i \in 1..Len(callbacks) : callbacks[i] = name})

\* The step is a cycle of the polling thread that polled a gamepad.
PolledCycle == c_call' = "poll_cycle" /\ active_gamepad' # <<>>

\* The reading a polling thread stored in the snapshot in its previous polled
\* cycle; a thread that has not polled yet compares with nothing pressed.
Previous(field) == thread.polled /\ atomic_state[field]

Edge(field) == IF atomic_state'[field] /\ ~Previous(field) THEN 1 ELSE 0

\* C31: a polling loop that was given a callback calls on_fret_press once in
\* each polled cycle that finds the fret pressed after a polled cycle that
\* found it released (or after none), on_fret_release once in each polled
\* cycle that finds it released after one that found it pressed, on_strum once
\* for each strum direction that went from 0 to 1, and nothing else; the fret
\* callbacks of the loop alternate, the first being a press.
C31_EdgeCallbacks ==
  [][(PolledCycle /\ thread.callback) =>
       /\ Times(fired', "on_fret_press") = Edge("fret_green")
       /\ Times(fired', "on_fret_release") =
            IF ~atomic_state'.fret_green /\ Previous("fret_green") THEN 1 ELSE 0
       /\ Times(fired', "on_strum_up") = Edge("strum_up")
       /\ Times(fired', "on_strum_down") = Edge("strum_down")
       /\ Len(fired') = Times(fired', "on_fret_press") + Times(fired', "on_fret_release")
                        + Times(fired', "on_strum_up") + Times(fired', "on_strum_down")
       /\ Times(fired', "on_fret_press") = 1 => thread.last_fret # "on_fret_press"
       /\ Times(fired', "on_fret_release") = 1 => thread.last_fret = "on_fret_press"]_vars

\* A loop with a callback has just called on_fret_release, after a press, in
\* the cycle that also found a strum.
C31_Witness ==
  /\ c_call = "poll_cycle"
  /\ thread.callback
  /\ Times(fired, "on_fret_release") = 1
  /\ Times(fired, "on_strum_up") = 1

\* The polling thread is at its try_lock and another thread has the handle.
HandleBusy == thread.pc = "try_lock" /\ gilrs.holder # "none"

\* C32: a polling cycle that finds the driver handle held by another thread
\* does not wait: its step is possible at once, stores nothing in the
\* snapshot, fires no callback, keeps the previous-cycle copies, and takes
\* the thread back to the head of its loop, from where it tries the handle
\* again unless it was told to stop.
C32_BusySkips ==
  /\ [](HandleBusy => ENABLED PollBusy)
  /\ [][HandleBusy /\ thread' # thread =>
          /\ atomic_state' = atomic_state
          /\ fired' = fired
          /\ thread' = [thread EXCEPT !.pc = "while"]
          /\ gilrs' = gilrs /\ active_gamepad' = active_gamepad]_vars
  /\ HandleBusy ~> (thread.pc = "exited" \/ (thread.pc = "try_lock" /\ c_call = "poll_while"))

\* The thread has skipped a cycle during a scan, with a pressed fret in its
\* previous-cycle copy.
C32_Witness ==
  /\ c_call = "poll_busy"
  /\ gilrs.holder = "process_events"
  /\ thread.prev_frets[1]
  /\ atomic_state.fret_green

\* ------------------------------------------------------------------------
\* From the controller snapshot to the synthesizer
\* ------------------------------------------------------------------------
\* The step is a send_audio_event of a thread's loop.
SendStepOf(t) == app_call'.op = "send" /\ app_call'.thread = t /\ app' # app

\* C33: with process_controller_input running on two threads, the batches of
\* events reach the audio event queue in the order in which the Mapper
\* produced them: a thread sends an event only when no batch produced before
\* its own has events left to send.
C33_BatchOrder ==
  [][\A t \in AppThreads : SendStepOf(t) => Head(order) = t]_vars

\* The voices that sound without having been released.
HeldVoices == {i \in 1..MAX_VOICES : synth.voices[i].envelope_stage \in {"Attack", "Sustain"}}

\* C34: whatever the snapshots and the callbacks, a full event queue
\* included, once the strum is released, the events of the release are sent
\* and the queue is drained, no voice of the synthesizer is in Attack or
\* Sustain.
C34_ReleaseSilences ==
  (/\ ~mapper.last_strum_state
   /\ \A t \in AppThreads : app[t].pc = "idle"
   /\ ring = <<>>) => HeldVoices = {}

\* A thread waits at Mutex::lock for a mutex that is held, or at join for the
\* polling thread to leave its loop.
Waiting(t) ==
  \/ AtStep(t, "lock") /\ mutex[Head(steps[t]).mutex] # "none"
  \/ AtStep(t, "join") /\ ~poller.exited

WaitsFor(t) == IF AtStep(t, "join") THEN "polling" ELSE mutex[Head(steps[t]).mutex]

\* A thread that has a step to take and is not waiting.
Runnable(t) ==
  /\ ~Waiting(t)
  /\ steps[t] # <<>> \/ (t = "polling" /\ ~poller.exited)

\* Following who waits for whom from t ends at a thread that can run.
RECURSIVE Progresses(_, _)
Progresses(t, n) ==
  IF Waiting(t) THEN n > 0 /\ Progresses(WaitsFor(t), n - 1) ELSE Runnable(t)

\* The order the mutexes are taken in: AppState.controller, then the driver
\* handle, then one of the others.
LockRank(m) == IF m = "controller" THEN 1 ELSE IF m = "gilrs" THEN 2 ELSE 3

Takes(t, m) == mutex'[m] = t /\ mutex[m] # t

\* C35: no interleaving of the polling thread with the commands' calls on the
\* controller deadlocks: every waiting thread waits, directly or through
\* other waiting threads, for a thread that can run, and a thread takes a
\* mutex only while the mutexes it holds come earlier in one fixed order.
C35_NoDeadlock ==
  /\ [](\A t \in LockThreads : Waiting(t) => Progresses(t, Cardinality(LockThreads)))
  /\ [][\A t \in LockThreads : \A m \in Mutexes :
          Takes(t, m) => \A h \in Mutexes : mutex[h] = t => LockRank(h) < LockRank(m)]_vars

\* The polling thread, holding the driver handle, waits for the active slot
\* that a command holds, and the other command thread waits for the
\* controller.
C35_Witness ==
  /\ Waiting("polling") /\ mutex["gilrs"] = "polling"
  /\ WaitsFor("polling") \in CommandThreads
  /\ \E t \in CommandThreads : Waiting(t) /\ WaitsFor(t) \in CommandThreads

\* Every gamepad is unplugged while the polling thread runs.
Gone == devices.plugged = {} /\ polling_thread # <<>>

\* What get_state reports: not connected, no fret and no strum pressed.
Cleared ==
  /\ ~atomic_state.connected
  /\ ~atomic_state.fret_green
  /\ ~atomic_state.strum_up /\ ~atomic_state.strum_down

\* C36: after the active gamepad has been unplugged (and no gamepad is
\* plugged in again), get_state comes to report connected = false and no
\* fret and no strum pressed, whichever thread took the driver's events.
C36_DisconnectClears == Gone ~> (Cleared \/ devices.plugged # {})

\* The last snapshot has gone through process_controller_input and the
\* audio callback has taken every event.
Consumed == (\A t \in AppThreads : app[t].pc = "idle") /\ ring = <<>>

\* C37: with the whammy bar back at rest, and the events of the Mapper sent
\* and taken by the audio callback, the synthesizer's pitch bend is 0.
C37_BendReturns == (input.whammy = 0 /\ Consumed) => synth.pitch_bend = 0

\* The callback hands a NoteOn to the fallback synthesizer.
NoteStarted ==
  /\ PopStep /\ SameStream
  /\ Head(ring).type = "NoteOn"
  /\ engine.backend = "Fallback"

\* C38: a note started on the fallback synthesizer, also after a backend
\* switch, is started with the release multiplier, sustain mode and sustain
\* release time last set through the control channel.
C38_SettingsSurvive == [][NoteStarted => engine.settings = engine.requested]_vars

\* update_sustain is called right after a Hit that opened a sustain, at the
\* beat of that strum and with the frets of that strum.
SustainAfterHit ==
  /\ song_call = "check_strum"
  /\ song_result.type = "Hit"
  /\ song_result.event.is_sustain
  /\ SustainStep
  /\ song_input'.current_beat = song_input.current_beat
  /\ song_input'.pressed = song_input.pressed

\* C40: directly after a Hit that opened a sustain, update_sustain at the
\* beat of that strum with the same frets pressed returns true, wherever in
\* the hit window the strum fell, up to half a beat before the event's beat
\* included.
C40_SustainAfterHit == [][SustainAfterHit => song_result' = TRUE]_vars

\* C39: SongPlayer::check_strum judges a strum as the HitDetector judges it
\* against all the chord events of the chart: an event not yet hit at exactly
\* half a beat before or after the transport's beat can be hit.
C39_SameWindow ==
  [][(StrumStep /\ chart # <<>>) =>
       song_result' =
         <<check_strum(hit_detector, get_current_beat(transport, now).result,
                       song_input', flat_map(chart[1].lanes)).result>>]_vars
====
